---- MODULE Spec2Model ----
(***************************************************************************)
(* Digital Memory knowledge visualisation (assets/js/graph.js): the        *)
(* dataset normalizer (buildGraphFromNotes) and the view coordinator.      *)
(***************************************************************************)
EXTENDS Integers, Sequences, FiniteSets, TLC

VARIABLES
  notes,            \* argument of buildGraphFromNotes (normalizer runs)
  built,            \* its result, NoData before the call
  callArgs,         \* arguments of a function of the time view or of the graph
                    \* renderer that is run on its own
  callResult,       \* what it returned, NoData before the call
  \* ---- the page and its collaborators
  dmSync,           \* window.dmSync is present
  noteStore,        \* content version of the live notes store (0: no notes)
  todoStore,        \* content version of the todos store (0: no todos)
  theme,            \* the data-theme attribute
  storedView,       \* localStorage 'dm-view-mode': {} when unset, else {value}
  navigated,        \* the page was left through a click on a node or card
  filterStore,      \* localStorage 'dm-time-filter', 'dm-time-custom-from' and
                    \* 'dm-time-custom-to': each {} when unset, else {value}
  \* ---- module state of graph.js
  currentView,
  cachedData,
  graphRendered, gridRendered, radialRendered, timeRendered,
  allTodos,         \* _allTodos: {} when null, else {todo list version}
  timeFilterState,  \* _timeFilterState: mode, customFrom, customTo
  currentNodeId,    \* {} while it holds -1, which is no node's id, else {id}
  \* ---- the document
  activeContainers, \* view containers carrying the class 'active'
  legend,           \* the legend shown: "notes" or "time"
  hover,            \* the drawn element under the pointer, NoHover when none
  graphOut, gridOut, radialOut,   \* what each container shows, NoOutput when empty
  timeDom,          \* children of the time container
  \* ---- callbacks in flight
  noteLoads,        \* pending loadFromIndexedDB promises, oldest first
  staticFetch,      \* the fallback fetch: "none", "pending", "done", "failed"
  todoFetches,      \* pending getAllTodos promises, oldest first
  timers,           \* pending setTimeout callbacks, in scheduling order
  uncaught,         \* errors that reached the page
  logged,           \* errors written with console.error
  \* ---- observers
  lastOp,           \* the handler that ran last
  invoked,          \* the renderers that handler invoked
  renders,          \* renderer invocations per view since its last invalidation
  cachedFrom,       \* the load whose dataset cachedData holds: "none", "static",
                    \* "live", or "later" for a live load started after the fetch
  \* ---- the scripts beside graph.js
  search,           \* the search modal of search.js
  worker            \* the service worker

buildVars == <<notes, built, callArgs, callResult>>

envVars == <<dmSync, noteStore, todoStore, theme, storedView, navigated>>

flagVars == <<graphRendered, gridRendered, radialRendered, timeRendered>>

viewVars == <<currentView, cachedData, flagVars, allTodos, activeContainers, legend,
              hover, graphOut, gridOut, radialOut, timeDom, currentNodeId>>

asyncVars == <<noteLoads, staticFetch, todoFetches, timers, uncaught, logged>>

spyVars == <<lastOp, invoked, renders, cachedFrom>>

filterVars == <<filterStore, timeFilterState>>

sideVars == <<search, worker>>

graphVars == <<buildVars, envVars, viewVars, asyncVars, spyVars, filterVars>>

vars == <<graphVars, sideVars>>

(***************************************************************************)
(* Values                                                                  *)
(***************************************************************************)
\* null (cachedData before any load, result not yet computed)
NoData == [null |-> TRUE]

\* an optional field: {} when absent (null/undefined), {v} when present
OrElse(opt, dflt) == IF opt = {} THEN dflt ELSE CHOOSE v \in opt : TRUE

\* no function is run on its own
NoCall == callArgs = <<>> /\ callResult = NoData

\* localStorage.getItem(key) || dflt: an unset key and the empty string are falsy
StoredOr(opt, dflt) == IF opt = {} \/ opt = {""} THEN dflt ELSE CHOOSE v \in opt : TRUE

\* Ids are strings, modelled as sequences of UTF-16 code units: '|', and the
\* '%', '7', 'C' that encodeURIComponent writes for it
Bar == 124
Percent == 37
Digit7 == 55
UpperC == 67

\* the ids "a", "b", "c", "ab", "a|b", "b|c"
IdA == <<97>>
IdB == <<98>>
IdC == <<99>>
IdAB == <<97, 98>>
IdABarB == <<97, Bar, 98>>
IdBBarC == <<98, Bar, 99>>

\* "/docs/view/?id="
DocsViewPrefix == <<47, 100, 111, 99, 115, 47, 118, 105, 101, 119, 47, 63, 105, 100, 61>>

\* encodeURIComponent on the code units that occur: letters are kept, '|' becomes %7C
RECURSIVE encodeURIComponent(_)
encodeURIComponent(s) ==
  IF s = <<>> THEN <<>>
  ELSE (IF Head(s) = Bar THEN <<Percent, Digit7, UpperC>> ELSE <<Head(s)>>)
       \o encodeURIComponent(Tail(s))

\* JavaScript's < on strings: lexicographic on code units
RECURSIVE StrLess(_, _)
StrLess(a, b) ==
  IF b = <<>> THEN FALSE
  ELSE IF a = <<>> THEN TRUE
  ELSE IF Head(a) # Head(b) THEN Head(a) < Head(b)
  ELSE StrLess(Tail(a), Tail(b))

(***************************************************************************)
(* Dataset normalizer                                                      *)
(***************************************************************************)
\* no manifest link on the page: the base URL is empty
getBaseUrl == <<>>

destinationToCategory(dest) ==
  IF dest = "book-note" THEN "books"
  ELSE IF dest = "topic" THEN "topics"
  ELSE IF dest = "inbox" THEN "inbox"
  ELSE IF dest = "snippets" THEN "snippets"
  ELSE "default"

\* notes.forEach: one node per note with a (truthy) title, in list order
RECURSIVE BuildNodes(_)
BuildNodes(ns) ==
  IF ns = <<>> THEN <<>>
  ELSE LET note == Head(ns) IN
       IF note.title = "" THEN BuildNodes(Tail(ns))
       ELSE <<[id |-> note.id,
               path |-> getBaseUrl \o DocsViewPrefix \o encodeURIComponent(note.id),
               label |-> note.title,
               number_neighbours |-> 0,
               category |-> destinationToCategory(note.destination),
               tags |-> OrElse(note.tags, <<>>)]>> \o BuildNodes(Tail(ns))

\* the inner loop over tagsA: tagsB.indexOf(tagsA[ti]) !== -1 for some ti
SharedTag(tagsA, tagsB) ==
  \E ti \in 1..Len(tagsA) : \E tj \in 1..Len(tagsB) : tagsB[tj] = tagsA[ti]

\* the canonical key: smaller id, '|', larger id
EdgeKey(idA, idB) ==
  IF StrLess(idA, idB) THEN idA \o <<Bar>> \o idB ELSE idB \o <<Bar>> \o idA

\* if (!edgeSet[key]) { edgeSet[key] = true; edges.push(...) }
PushEdge(acc, a, b) ==
  IF EdgeKey(a.id, b.id) \in acc.edgeSet THEN acc
  ELSE [edges |-> Append(acc.edges, [source |-> a.id, target |-> b.id, type |-> "tag"]),
        edgeSet |-> acc.edgeSet \cup {EdgeKey(a.id, b.id)}]

\* an inner loop that starts at node i itself
InnerStartSelf(i) == i

\* the inner loop starts at the node after i
InnerStart(i) == i + 1

\* for (i ...) for (j = i + 1 ...): the loops, from position (i, j) on
RECURSIVE EdgeLoop(_, _, _, _)
EdgeLoop(nodes, i, j, acc) ==
  IF i > Len(nodes) THEN acc
  ELSE IF nodes[i].tags = <<>> \/ j > Len(nodes)
       THEN EdgeLoop(nodes, i + 1, InnerStart(i + 1), acc)
  ELSE IF nodes[j].tags # <<>> /\ SharedTag(nodes[i].tags, nodes[j].tags)
       THEN EdgeLoop(nodes, i, j + 1, PushEdge(acc, nodes[i], nodes[j]))
  ELSE EdgeLoop(nodes, i, j + 1, acc)

BuildEdges(nodes) ==
  EdgeLoop(nodes, 1, InnerStart(1), [edges |-> <<>>, edgeSet |-> {}]).edges

\* a neighbour test that looks at the source end only
TouchesSourceOnly(node, edge) == node.id = edge.source

\* if (node.id === edge.source || node.id === edge.target) node.number_neighbours++
Touches(node, edge) == node.id = edge.source \/ node.id = edge.target

\* edges.forEach(edge => nodes.forEach(node => ...))
RECURSIVE CountNeighbours(_, _)
CountNeighbours(nodes, edges) ==
  IF edges = <<>> THEN nodes
  ELSE CountNeighbours(
         [k \in 1..Len(nodes) |->
            IF Touches(nodes[k], Head(edges))
            THEN [nodes[k] EXCEPT !.number_neighbours = @ + 1]
            ELSE nodes[k]],
         Tail(edges))

buildGraphFromNotes(ns) ==
  LET nodes == BuildNodes(ns)
      edges == BuildEdges(nodes)
  IN [nodes |-> CountNeighbours(nodes, edges), edges |-> edges]

(***************************************************************************)
(* View coordinator: values                                                *)
(***************************************************************************)
ViewNames == {"graph", "grid", "radial", "time"}
Themes == {"light", "dark"}
NoOutput == [empty |-> TRUE]
NoHover == [view |-> "none", k |-> 0, adjacent |-> {}, before |-> <<>>]

\* graph-data.json as generated: pre-baked paths and a backlink edge
StaticData ==
  [nodes |-> <<[id |-> IdA, path |-> <<47>> \o IdA, label |-> "Static A",
                number_neighbours |-> 1, category |-> "books", tags |-> <<"t1">>],
               [id |-> IdB, path |-> <<47>> \o IdB, label |-> "Static B",
                number_neighbours |-> 1, category |-> "topics", tags |-> <<>>]>>,
   edges |-> <<[source |-> IdA, target |-> IdB, type |-> "backlink"]>>]

\* what getAllNotes() resolves with, per content version of the live store
NoteVersions == {0, 1}
StoreNotes(v) ==
  IF v = 0 THEN <<>>
  ELSE <<[id |-> IdB, title |-> "Note", destination |-> "topic", tags |-> {<<"t1">>}],
         [id |-> IdAB, title |-> "", destination |-> "snippets", tags |-> {}],
         [id |-> IdA, title |-> "Note", destination |-> "inbox", tags |-> {<<"t1", "t2">>}]>>

\* what getAllTodos() resolves with: the content version of the todos store
TodoVersions == {0, 1, 2}
StartTodoVersions == {0, 1}

\* the view containers of the page: graph-wrapper, grid-wrapper, radial-wrapper,
\* time-wrapper
wrappers == ViewNames

\* values found under 'dm-view-mode' at startup: unset, the name of a dataset
\* view, of the time view, or a value no view is named by
StoredViews == {{}, {"grid"}, {"time"}, {"list"}}

\* pending callbacks of all kinds the model follows at once
MaxPending == 2

(***************************************************************************)
(* Renderers                                                               *)
(***************************************************************************)
FirstTags(tags, n) == SubSeq(tags, 1, IF Len(tags) < n THEN Len(tags) ELSE n)

\* renderGridView: one card per node, in order
renderGridView(data, th) ==
  [theme |-> th,
   cards |-> [k \in 1..Len(data.nodes) |->
                [title |-> data.nodes[k].label,
                 href |-> data.nodes[k].path,
                 category |-> data.nodes[k].category,
                 connections |-> data.nodes[k].number_neighbours,
                 tags |-> FirstTags(data.nodes[k].tags, 5),
                 more |-> IF Len(data.nodes[k].tags) > 5
                          THEN Len(data.nodes[k].tags) - 5 ELSE 0]]]

\* renderSunburstView: root -> categories -> one leaf per node
renderSunburstView(data, th) ==
  [theme |-> th,
   count |-> Len(data.nodes),
   leaves |-> [k \in 1..Len(data.nodes) |->
                 [name |-> data.nodes[k].label,
                  path |-> data.nodes[k].path,
                  category |-> data.nodes[k].category,
                  value |-> IF data.nodes[k].number_neighbours + 1 > 1
                            THEN data.nodes[k].number_neighbours + 1 ELSE 1]],
   resized |-> FALSE]

\* d3.forceSimulation(nodesData): every node object handed over receives its
\* layout fields (index, x, y, vx, vy), here its slot in the layout
Simulate(nodesData) ==
  [k \in 1..Len(nodesData) |->
     [id |-> nodesData[k].id, path |-> nodesData[k].path, label |-> nodesData[k].label,
      number_neighbours |-> nodesData[k].number_neighbours,
      category |-> nodesData[k].category, tags |-> nodesData[k].tags,
      index |-> k - 1]]

\* window.location.pathname of the page: '/a/'
Slash == 47
LocationPathname == <<Slash>> \o IdA \o <<Slash>>

\* path.replace(/\/$/, '')
StripSlash(path) ==
  IF path # <<>> /\ path[Len(path)] = Slash THEN SubSeq(path, 1, Len(path) - 1) ELSE path

isCurrentPath(notePath) == StripSlash(LocationPathname) = StripSlash(notePath)

\* currentNodeId after the forEach of initGraph that started with it at cur
RECURSIVE MarkCurrent(_, _)
MarkCurrent(nodesData, cur) ==
  IF nodesData = <<>> THEN cur
  ELSE MarkCurrent(Tail(nodesData),
                   IF isCurrentPath(Head(nodesData).path) THEN {Head(nodesData).id} ELSE cur)

\* the attributes of the circles, labels and lines once the entrance has run:
\* opacity in hundredths, r in tenths of nodesSize[d.id], stroke as the entry
\* of the colour table of theme th, stroke-width in tenths
RestStyle(nodesData, linksData, th) ==
  [circles |-> [k \in 1..Len(nodesData) |-> [opacity |-> 100, r |-> 10]],
   texts |-> [k \in 1..Len(nodesData) |-> [opacity |-> 100, size |-> "0.75rem"]],
   lines |-> [e \in 1..Len(linksData) |->
                [stroke |-> <<th, "EDGE_COLOR">>,
                 width |-> IF linksData[e].type = "backlink" THEN 20 ELSE 15]]]

\* initGraph: the svg drawn over the laid-out nodes and links; current holds
\* the circles drawn as the current node (d.id === currentNodeId)
\* Object.keys(theme.CATEGORY_COLORS); the table has the same keys in both themes
CategoryColorKeys == {"books", "topics", "inbox", "default"}

\* theme.CATEGORY_COLORS[category] || theme.CATEGORY_COLORS['default'], as the
\* entry of the table of theme th (category is no inherited property name)
getCategoryColor(category, th) ==
  IF category \in CategoryColorKeys THEN <<th, category>> ELSE <<th, "default">>

\* the ids of the filters appended to defs: 'glow-' + cat for every key of the
\* table, then 'glow-active'
glowFilters == {<<"glow", cat>> : cat \in CategoryColorKeys} \cup {<<"glow", "active">>}

\* the filter attribute of a circle: 'glow-active' for the current node, else
\* 'glow-' + (d.category || 'default')
nodeFilter(d, cur) ==
  IF {d.id} = cur THEN <<"glow", "active">>
  ELSE <<"glow", IF d.category = "" THEN "default" ELSE d.category>>

initGraph(nodesData, linksData, th, cur) ==
  [theme |-> th,
   defs |-> glowFilters,
   fill |-> [k \in 1..Len(nodesData) |->
               IF {nodesData[k].id} = MarkCurrent(nodesData, cur)
               THEN <<th, "ACTIVE_COLOR">>
               ELSE getCategoryColor(nodesData[k].category, th)],
   filter |-> [k \in 1..Len(nodesData) |->
                 nodeFilter(nodesData[k], MarkCurrent(nodesData, cur))],
   nodes |-> Simulate(nodesData),
   links |-> linksData,
   style |-> RestStyle(nodesData, linksData, th),
   currentNodeId |-> MarkCurrent(nodesData, cur),
   current |-> {k \in 1..Len(nodesData) : {nodesData[k].id} = MarkCurrent(nodesData, cur)},
   zoomed |-> FALSE,
   resized |-> FALSE]

\* the node objects of cachedData themselves, handed over without copying
NodesArgShared(data) == [objs |-> data.nodes, fresh |-> FALSE]

\* the node objects renderCurrentView hands to initGraph: fresh copies
\* (Object.assign({}, n))
NodesArg(data) == [objs |-> data.nodes, fresh |-> TRUE]

\* { source: e.source.id || e.source, target: ..., type: e.type }: new link objects
LinksArg(data) ==
  [k \in 1..Len(data.edges) |->
     [source |-> data.edges[k].source, target |-> data.edges[k].target,
      type |-> data.edges[k].type]]

(***************************************************************************)
(* Time view content: dates, the filter range, eligibility, aggregation    *)
(***************************************************************************)
\* Instants are counted in whole days since 1970-01-01 and months from 1; a
\* Date is [valid |-> FALSE] when it holds NaN
NaNDate == [valid |-> FALSE]
DateOn(day) == [valid |-> TRUE, day |-> day]

IsLeap(y) == (y % 4 = 0 /\ y % 100 # 0) \/ y % 400 = 0

LeapsBefore(y) == ((y - 1) \div 4) - ((y - 1) \div 100) + ((y - 1) \div 400)

DaysBeforeMonth(y, m) ==
  <<0, 31, 59, 90, 120, 151, 181, 212, 243, 273, 304, 334>>[m]
    + (IF m > 2 /\ IsLeap(y) THEN 1 ELSE 0)

\* the day a Date holds after its fields were set to year y, month m, day d:
\* month 0 is December of the year before, and a day outside the month counts
\* on into the months around it
MakeDay(y, m, d) ==
  LET yy == IF m = 0 THEN y - 1 ELSE y
      mm == IF m = 0 THEN 12 ELSE m
  IN 365 * (yy - 1970) + LeapsBefore(yy) - LeapsBefore(1970)
       + DaysBeforeMonth(yy, mm) + d - 1

\* new Date(text + 'T00:00:00') for the texts a date input or a todo can hold
ParseDate(text) ==
  IF text = "2024-03-01" THEN DateOn(MakeDay(2024, 3, 1))
  ELSE IF text = "2024-03-31" THEN DateOn(MakeDay(2024, 3, 31))
  ELSE NaNDate

\* a range whose month preset starts on the first day of the current month
getTimeFilterRangeCalendar(fs, now) ==
  IF fs.mode = "month"
    THEN [from |-> {DateOn(MakeDay(now[1], now[2], 1))},
          to |-> {DateOn(MakeDay(now[1], now[2], now[3]))}]
  ELSE IF fs.mode = "week"
    THEN [from |-> {DateOn(MakeDay(now[1], now[2], now[3] - 7))},
          to |-> {DateOn(MakeDay(now[1], now[2], now[3]))}]
  ELSE [from |-> {}, to |-> {}]

\* getTimeFilterRange with _timeFilterState = fs and new Date() on the calendar
\* day now = <<year, month, day>>; a bound is {} when null, else {Date}
getTimeFilterRange(fs, now) ==
  LET today == DateOn(MakeDay(now[1], now[2], now[3])) IN
  IF fs.mode = "week"
    THEN [from |-> {DateOn(MakeDay(now[1], now[2], now[3] - 7))}, to |-> {today}]
  ELSE IF fs.mode = "month"
    THEN [from |-> {DateOn(MakeDay(now[1], now[2] - 1, now[3]))}, to |-> {today}]
  ELSE IF fs.mode = "year"
    THEN [from |-> {DateOn(MakeDay(now[1] - 1, now[2], now[3]))}, to |-> {today}]
  ELSE IF fs.mode = "custom"
    THEN [from |-> IF fs.customFrom # "" THEN {ParseDate(fs.customFrom)} ELSE {},
          to |-> IF fs.customTo # "" THEN {ParseDate(fs.customTo)} ELSE {}]
  ELSE [from |-> {}, to |-> {}]

\* A timestamp field of a todo is {} when absent, else one of
\*   [kind |-> "number", at |-> day]     milliseconds since the epoch
\*   [kind |-> "string", text |-> s]     a date text
\*   [kind |-> "timestamp", at |-> day]  an object with toDate()
\*   [kind |-> "seconds", at |-> day]    an object with a seconds field
Truthy(val) ==
  /\ val # {}
  /\ \A v \in val : /\ v.kind = "number" => v.at # 0
                    /\ v.kind = "string" => v.text # ""

\* t.completedAt || t.updatedAt || t.createdAt
dateValOf(t) ==
  IF Truthy(t.completedAt) THEN t.completedAt
  ELSE IF Truthy(t.updatedAt) THEN t.updatedAt
  ELSE t.createdAt

\* the Date d built from a truthy dateVal
DateOfVal(v) ==
  IF v.kind = "timestamp" THEN DateOn(v.at)
  ELSE IF v.kind = "seconds" THEN (IF v.at # 0 THEN DateOn(v.at) ELSE NaNDate)
  ELSE IF v.kind = "number" THEN DateOn(v.at)
  ELSE ParseDate(v.text)

\* d < bound and d > bound on Dates: false when either holds NaN
DateBefore(d, bound) == d.valid /\ bound.valid /\ d.day < bound.day
DateAfter(d, bound) == d.valid /\ bound.valid /\ d.day > bound.day

\* a filter that drops what it cannot date
PassesRangeStrict(t, range) ==
  /\ Truthy(dateValOf(t))
  /\ \A v \in dateValOf(t) :
       /\ DateOfVal(v).valid
       /\ \A b \in range.from : ~DateBefore(DateOfVal(v), b)
       /\ \A b \in range.to : ~DateAfter(DateOfVal(v), b)

\* the callback of todos.filter in filterTodosByTimeRange
PassesRange(t, range) ==
  \/ ~Truthy(dateValOf(t))
  \/ \A v \in dateValOf(t) :
       \/ ~DateOfVal(v).valid
       \/ /\ \A b \in range.from : ~DateBefore(DateOfVal(v), b)
          /\ \A b \in range.to : ~DateAfter(DateOfVal(v), b)

filterTodosByTimeRange(todos, range) ==
  IF range.from = {} /\ range.to = {} THEN todos
  ELSE LET InRange(t) == PassesRange(t, range) IN SelectSeq(todos, InRange)

\* an eligibility test that lets subtasks through
IsCompletedAnyLevel(t) == t.done /\ t.actualMin # {}

\* t.done && t.actualMin != null && !t.parentId; a parentId that is present is
\* an identifier, a non-empty string
IsCompleted(t) == t.done /\ t.actualMin # {} /\ t.parentId = {}

\* completedTodos of renderTimeContent
completedTodos(allTodosArg, range) ==
  SelectSeq(filterTodosByTimeRange(allTodosArg, range), IsCompleted)

\* minutes of one pomodoro, the estimate of a todo without one, and the label
\* of a todo without category
PomodoroMinutes == 25
DefaultEstimate == 25
Uncategorized == "Uncategorized"

\* a number field of a todo is {} when null or undefined, else {n}
\* (t.estimatedMin || 25)
EstimatedOr(t) ==
  IF t.estimatedMin = {} \/ t.estimatedMin = {0} THEN DefaultEstimate
  ELSE CHOOSE n \in t.estimatedMin : TRUE

\* (t.actualMin || 0)
ActualOr(t) ==
  IF t.actualMin = {} THEN 0 ELSE CHOOSE n \in t.actualMin : TRUE

\* t.category || 'Uncategorized'
CategoryOr(t) ==
  IF t.category = {} \/ t.category = {""} THEN Uncategorized
  ELSE CHOOSE c \in t.category : TRUE

\* names every object inherits from Object.prototype: categoryMap[name] is
\* truthy for them on the empty object
InheritedKeys == {"constructor", "toString", "valueOf", "hasOwnProperty", "__proto__"}

\* the running totals of the forEach loops
RECURSIVE SumEstimated(_)
SumEstimated(todos) ==
  IF todos = <<>> THEN 0 ELSE EstimatedOr(Head(todos)) + SumEstimated(Tail(todos))

RECURSIVE SumActual(_)
SumActual(todos) ==
  IF todos = <<>> THEN 0 ELSE ActualOr(Head(todos)) + SumActual(Tail(todos))

\* Math.round(num / den) on non-negative integers
RoundHalfUp(num, den) == (2 * num + den) \div (2 * den)

\* the forEach that fills categoryMap, own keys in insertion order; on an
\* inherited name the sums go to the inherited object and no own key is made
RECURSIVE categoryMap(_)
categoryMap(todos) ==
  IF todos = <<>> THEN <<>>
  ELSE LET before == categoryMap(SubSeq(todos, 1, Len(todos) - 1))
           t == todos[Len(todos)]
           cat == CategoryOr(t)
           at == {k \in 1..Len(before) : before[k].name = cat}
       IN IF cat \in InheritedKeys THEN before
          ELSE IF at = {}
          THEN Append(before, [name |-> cat, estimated |-> EstimatedOr(t),
                               actual |-> ActualOr(t), count |-> 1])
          ELSE [k \in 1..Len(before) |->
                  IF k \in at
                  THEN [name |-> cat, estimated |-> before[k].estimated + EstimatedOr(t),
                        actual |-> before[k].actual + ActualOr(t),
                        count |-> before[k].count + 1]
                  ELSE before[k]]

\* Array.prototype.sort with (a, b) => b.actual - a.actual: descending, and
\* entries of equal actual keep their order
InsertByActual(entry, sorted) ==
  LET ahead == {k \in 1..Len(sorted) : sorted[k].actual >= entry.actual}
      n == IF ahead = {} THEN 0 ELSE CHOOSE k \in ahead : \A j \in ahead : j <= k
  IN SubSeq(sorted, 1, n) \o <<entry>> \o SubSeq(sorted, n + 1, Len(sorted))

RECURSIVE sortByActual(_)
sortByActual(entries) ==
  IF entries = <<>> THEN <<>>
  ELSE InsertByActual(entries[Len(entries)],
                      sortByActual(SubSeq(entries, 1, Len(entries) - 1)))

\* renderTimeContent(contentArea, allTodos) with _timeFilterState = fs on the
\* calendar day now: what the content area shows; pomodoros in tenths
renderTimeContent(allTodosArg, fs, now) ==
  LET completed == completedTodos(allTodosArg, getTimeFilterRange(fs, now)) IN
  IF completed = <<>> THEN [nodata |-> TRUE, mode |-> fs.mode]
  ELSE [nodata |-> FALSE,
        completed |-> Len(completed),
        totalActual |-> SumActual(completed),
        totalEstimated |-> SumEstimated(completed),
        totalPomodoros |-> RoundHalfUp(SumActual(completed) * 10, PomodoroMinutes),
        categoryData |-> sortByActual(categoryMap(completed))]

(***************************************************************************)
(* Time view                                                               *)
(***************************************************************************)
\* the day the page is used on
Today == <<2024, 3, 31>>

\* a completed top-level todo of five minutes, completed on the given day
CompletedOn(day) ==
  [done |-> TRUE, actualMin |-> {5}, estimatedMin |-> {}, parentId |-> {},
   category |-> {}, completedAt |-> {[kind |-> "number", at |-> day]},
   updatedAt |-> {}, createdAt |-> {}]

\* the todo list getAllTodos() resolves with, per content version of the store
StoreTodos(v) ==
  IF v = 0 THEN <<>>
  ELSE IF v = 1 THEN <<CompletedOn(MakeDay(2024, 3, 15))>>
  ELSE <<CompletedOn(MakeDay(2024, 3, 15)), CompletedOn(MakeDay(2024, 3, 30))>>

\* renderTimeContent draws the stats and the two charts unless it shows its
\* 'No data' message
DrawsCharts(todos, fs) ==
  \E v \in todos : ~renderTimeContent(StoreTodos(v), fs, Today).nodata

\* the text under the title 'No data' of renderTimeContent
emptyMsg(mode) ==
  IF mode = "custom" THEN "No completed tasks in this date range."
  ELSE IF mode = "all" THEN "No completed tasks yet."
  ELSE IF mode = "week" THEN "No completed tasks in the last week."
  ELSE IF mode = "month" THEN "No completed tasks in the last month."
  ELSE "No completed tasks in the last year."

\* the children of the time container, and whether the time legend (an
\* element outside the container) lists categories
EmptyTimeDom == [msg |-> "", bars |-> 0, areas |-> <<>>, legendItems |-> FALSE]

\* every pending content timer holds a content area that left the document
Detach(ts) ==
  [k \in 1..Len(ts) |-> IF ts[k].kind = "time" THEN [ts[k] EXCEPT !.live = FALSE] ELSE ts[k]]

\* showTimeEmpty: the container holds the message alone
showTimeEmpty(st, title) ==
  [st EXCEPT !.timeDom = [msg |-> title, bars |-> 0, areas |-> <<>>,
                          legendItems |-> st.timeDom.legendItems],
             !.timers = Detach(st.timers)]

\* renderTimeView up to the getAllTodos() call
renderTimeView(st) ==
  IF "time" \notin wrappers THEN st
  ELSE LET cleared == [st EXCEPT
                         !.timeDom = [EmptyTimeDom EXCEPT
                                        !.legendItems = st.timeDom.legendItems],
                         !.timers = Detach(st.timers)] IN
       IF ~dmSync THEN showTimeEmpty(cleared, "Sync not available")
       ELSE [cleared EXCEPT !.todoFetches = Append(@, [kind |-> "render"])]

\* triggerTimeContentUpdate: fade the first content area and re-render it later
\* a filter change that leaves the content as it is
keepTimeContent(st) == st

triggerTimeContentUpdate(st) ==
  IF "time" \notin wrappers \/ st.timeDom.areas = <<>> \/ st.allTodos = {} THEN st
  ELSE [st EXCEPT !.timeDom.areas[1].fading = TRUE,
                  !.timers = Append(@, [kind |-> "time", live |-> TRUE])]

(***************************************************************************)
(* View switching                                                          *)
(***************************************************************************)
\* renderer calls are counted up to "more than one"
Bump(n) == IF n = 0 THEN 1 ELSE 2

\* a renderer call, as the observers see it
Invoke(st, v) ==
  [st EXCEPT !.invoked = @ \cup {v}, !.renders[v] = Bump(@)]

\* a flag test that always asks for a render
NeedsRenderAlways(flag) == TRUE

\* the flag test of renderCurrentView: !graphRendered, !gridRendered, ...
NeedsRender(flag) == ~flag

\* renderCurrentView: the time view first, the dataset views once data is held
renderCurrentView(st) ==
  IF st.currentView = "time" /\ NeedsRender(st.timeRendered)
  THEN [renderTimeView(Invoke(st, "time")) EXCEPT !.timeRendered = TRUE]
  ELSE IF st.cachedData = NoData THEN st
  ELSE IF st.currentView = "graph" /\ NeedsRender(st.graphRendered)
  THEN LET arg == NodesArg(st.cachedData)
           out == initGraph(arg.objs, LinksArg(st.cachedData), theme, st.currentNodeId)
       IN [Invoke(st, "graph") EXCEPT
             !.graphOut = [n \in DOMAIN out \ {"currentNodeId"} |-> out[n]],
             !.currentNodeId = out.currentNodeId,
             !.cachedData = IF arg.fresh THEN @ ELSE [@ EXCEPT !.nodes = out.nodes],
             !.hover = IF @.view = "graph" THEN NoHover ELSE @,
             !.graphRendered = TRUE]
  ELSE IF st.currentView = "grid" /\ NeedsRender(st.gridRendered)
  THEN [Invoke(st, "grid") EXCEPT
          !.gridOut = IF "grid" \in wrappers
                      THEN renderGridView(st.cachedData, theme) ELSE @,
          !.gridRendered = TRUE]
  ELSE IF st.currentView = "radial" /\ NeedsRender(st.radialRendered)
  THEN [Invoke(st, "radial") EXCEPT
          !.radialOut = IF "radial" \in wrappers
                        THEN renderSunburstView(st.cachedData, theme) ELSE @,
          !.hover = IF @.view = "radial" THEN NoHover ELSE @,
          !.radialRendered = TRUE]
  ELSE st

\* switchView: store the name, activate its container if there is one, render
switchView(st, viewName) ==
  renderCurrentView(
    [st EXCEPT !.currentView = viewName,
               !.storedView = {viewName},
               !.activeContainers = IF viewName \in wrappers THEN {viewName} ELSE {},
               !.legend = IF viewName = "time" THEN "time" ELSE "notes"])

\* an invalidation that leaves the rendered flags as they are
KeepFlags(st) == st

\* what onDataReady and the theme callback do to the rendered flags
ClearFlags(st) ==
  [st EXCEPT !.graphRendered = FALSE, !.gridRendered = FALSE,
             !.radialRendered = FALSE, !.timeRendered = FALSE]

\* a reset that leaves currentNodeId as the render before set it
KeepCurrentNode(st) == st

\* currentNodeId = -1 in onDataReady and in the theme callback
ResetCurrentNode(st) == [st EXCEPT !.currentNodeId = {}]

\* the flags, the todo cache and the call counters after an invalidation
Invalidate(st) ==
  [ClearFlags(ResetCurrentNode(st)) EXCEPT !.allTodos = {},
                         !.renders = [v \in ViewNames |-> 0]]

\* onDataReady: keep the dataset, invalidate, switchView(currentView)
onDataReady(st, graphData) ==
  switchView([Invalidate(st) EXCEPT !.cachedData = graphData], st.currentView)

(***************************************************************************)
(* Search modal (assets/search.js)                                         *)
(***************************************************************************)
DEBOUNCE_MS == 150
MaxClock == 500

\* what the user can have typed into the modal's input
InputValues == {"", " ", "a", "a ", "zz"}

\* String.prototype.trim on those values
Trim(value) == IF value = " " THEN "" ELSE IF value = "a " THEN "a" ELSE value

\* bookSearchIndex.search(query, 10): the number of hits of the indexed pages
Hits(query) == IF query = "a" THEN 2 ELSE 0

NoResults == [kind |-> "none", query |-> "", hits |-> 0]

\* the modal with its list empty and no timer set; clock counts milliseconds,
\* timers holds the due times of the pending setTimeout callbacks,
\* searchDebounceTimer the due time of the timer it names ({} for null)
SearchStart(hasIndex) ==
  [clock |-> 0, value |-> "", bookSearchIndex |-> hasIndex,
   timers |-> {}, searchDebounceTimer |-> {},
   results |-> NoResults, activeIndex |-> -1,
   \* the modal carries the class 'active'; window.dmSync exists; initialized;
   \* the promise of the first initIndex: "none", "pending", "done"; the
   \* callback of openModal waits for that promise; the result links whose
   \* item carries the class 'active'; the sign-in items that callbacks of
   \* openModal have appended to the list
   open |-> FALSE, dmSync |-> TRUE, initialized |-> FALSE, build |-> "none",
   waiting |-> FALSE, marked |-> {}, appended |-> 0,
   \* the listener that ran last
   op |-> "load",
   \* what was observed: the time of the last input event, the input events
   \* since a timer was last idle, the calls of search since the last input
   lastInput |-> -1, burst |-> 0, runs |-> 0]

\* search(): the list is emptied, then filled from the trimmed input value
searchResults(sm) ==
  LET query == Trim(sm.value) IN
  IF query = "" \/ ~sm.bookSearchIndex
  THEN [kind |-> IF sm.bookSearchIndex THEN "none" ELSE "prompt",
        query |-> query, hits |-> 0]
  ELSE IF Hits(query) = 0 THEN [kind |-> "empty", query |-> query, hits |-> 0]
  ELSE [kind |-> "hits", query |-> query, hits |-> Hits(query)]

\* clearResults()
clearResults(sm) == [sm EXCEPT !.results = NoResults, !.marked = {}, !.appended = 0]

\* showSignInPrompt(): one more item, no link
showSignInPrompt(sm) == [sm EXCEPT !.appended = @ + 1]

\* the callback openModal chains to initIndex()
afterInit(sm) == IF sm.bookSearchIndex THEN sm ELSE showSignInPrompt(sm)

\* getLinks().length
Links(sm) == IF sm.results.kind = "hits" THEN sm.results.hits ELSE 0

\* a setActive that takes the index as it is given
setActiveUnclamped(sm, index) ==
  IF Links(sm) = 0 THEN sm
  ELSE [sm EXCEPT !.activeIndex = index,
                  !.marked = (@ \ (0..(Links(sm) - 1))) \cup {index}]

\* setActive(index)
setActive(sm, index) ==
  IF Links(sm) = 0 THEN sm
  ELSE LET low == IF index < 0 THEN Links(sm) - 1 ELSE index
           clamped == IF low >= Links(sm) THEN 0 ELSE low
       IN [sm EXCEPT !.activeIndex = clamped,
                     !.marked = (@ \ (0..(Links(sm) - 1))) \cup {clamped}]

\* an input listener that sets the new timer and leaves the old one pending
clearTimeoutSkipped(pending, handle) == pending

\* clearTimeout(handle)
clearTimeout(pending, handle) == pending \ handle

\* the input listener: the user has changed the input to value (one input
\* event at a time of the clock)
SearchInput(value) ==
  /\ search.open
  /\ value # search.value
  /\ search.lastInput < search.clock
  /\ search' = [search EXCEPT
       !.value = value,
       !.timers = clearTimeout(@, search.searchDebounceTimer)
                    \cup {search.clock + DEBOUNCE_MS},
       !.searchDebounceTimer = {search.clock + DEBOUNCE_MS},
       !.lastInput = search.clock,
       !.burst = IF search.timers = {} THEN 1 ELSE @ + 1,
       !.runs = 0,
       !.op = "input"]
  /\ UNCHANGED <<graphVars, worker>>

\* a timer that is due calls search
SearchFire ==
  /\ \E due \in search.timers :
       /\ due <= search.clock
       /\ search' = [clearResults(search) EXCEPT
            !.timers = @ \ {due},
            !.results = searchResults(search),
            !.activeIndex = -1,
            !.runs = @ + 1,
            !.op = "search"]
  /\ UNCHANGED <<graphVars, worker>>

\* 50 ms pass; a timer that is due fires first
SearchTick ==
  /\ \A due \in search.timers : due > search.clock
  /\ search.clock + 50 <= MaxClock
  /\ search' = [search EXCEPT !.clock = @ + 50, !.op = "tick"]
  /\ UNCHANGED <<graphVars, worker>>

\* openModal(): the input and the list are emptied; initIndex() starts the
\* first build, or returns a resolved promise once initialized is set, and
\* then the chained callback runs before any other listener
OpenModal ==
  /\ ~search.open
  /\ LET shown == [clearResults(search) EXCEPT
                     !.open = TRUE, !.value = "", !.activeIndex = -1,
                     !.op = "open"]
     IN search' = IF search.initialized THEN afterInit(shown)
                  ELSE [shown EXCEPT !.initialized = TRUE, !.build = "pending",
                                     !.waiting = TRUE]
  /\ UNCHANGED <<graphVars, worker>>

\* closeModal()
CloseModal ==
  /\ search.open
  /\ search' = [clearResults(search) EXCEPT
                  !.open = FALSE, !.value = "", !.activeIndex = -1,
                  !.op = "close"]
  /\ UNCHANGED <<graphVars, worker>>

\* how the first build can end: with dmSync the notes give an index or there
\* are none (a failed read is caught), without it the static fetch gives an
\* index or the promise is rejected
BuildOutcomes(sm) == IF sm.dmSync THEN {"index", "noindex"} ELSE {"index", "rejected"}

\* the promise of initIndex() settles
InitSettle(outcome) ==
  /\ search.build = "pending"
  /\ outcome \in BuildOutcomes(search)
  /\ LET built1 == [search EXCEPT
                      !.build = "done", !.waiting = FALSE,
                      !.bookSearchIndex = @ \/ outcome = "index",
                      !.op = "initSettle"]
     IN search' = IF search.waiting /\ outcome # "rejected"
                  THEN afterInit(built1) ELSE built1
  /\ UNCHANGED <<graphVars, worker>>

\* the dm-sync-complete listener has read notes and built the index anew
SearchSync ==
  /\ search.dmSync
  /\ search' = [search EXCEPT !.bookSearchIndex = TRUE, !.initialized = TRUE,
                              !.op = "dm-sync-complete"]
  /\ UNCHANGED <<graphVars, worker>>

\* keydown of ArrowDown (step = 1) or ArrowUp (step = -1) while the modal is open
ArrowKey(step) ==
  /\ search.open
  /\ search' = [setActive(search, search.activeIndex + step) EXCEPT
                  !.op = IF step = 1 THEN "ArrowDown" ELSE "ArrowUp"]
  /\ UNCHANGED <<graphVars, worker>>

(***************************************************************************)
(* Service worker (the worker script of the site)                          *)
(***************************************************************************)
MaxTimers == 3

\* the tags a message of the main thread can carry
ProtoKey == "__proto__"
Tags == {"pomodoro", "break", ProtoKey}

\* pendingNotifications is a plain object: reading the key "__proto__" gives
\* Object.prototype, which is truthy and is no timer; writing a number to it
\* is ignored; it is never an own property
Truthy2(obj, tag) == tag = ProtoKey \/ obj[tag] # {}
TimerAt(obj, tag) == IF tag = ProtoKey THEN {} ELSE obj[tag]
PutKey(obj, tag, id) == IF tag = ProtoKey THEN obj ELSE [obj EXCEPT ![tag] = {id}]
DeleteKey(obj, tag) == IF tag = ProtoKey THEN obj ELSE [obj EXCEPT ![tag] = {}]
OwnKeys(obj) == {tag \in Tags : tag # ProtoKey /\ obj[tag] # {}}

\* the requests and the responses of the network
Urls == {"/", "/docs/"}
Methods == {"GET", "POST"}
Responses ==
  [type : {"basic", "cors"}, status : {200, 206, 404},
   disposition : BOOLEAN, body : {"old", "new"}]
NetworkError == [type |-> "error"]
Outcomes == Responses \cup {NetworkError}

\* Response.ok
Ok(response) == response.status >= 200 /\ response.status <= 299

\* cacheable(response)
cacheable(response) ==
  response.type = "basic" /\ Ok(response) /\ ~response.disposition

\* Cache.put rejects a partial response
putRejects(response) == response.status = 206

NoAnswer == [by |-> "none", response |-> {}]
NoRequest == [method |-> "", url |-> "", outcome |-> NetworkError]
NoMessage == [type |-> "", tag |-> ""]

\* the worker after install: no notification pending, the cache empty (no
\* page is precached unless BookServiceWorker is "precache")
WorkerStart ==
  [pendingNotifications |-> [tag \in Tags |-> {}],
   timeouts |-> {}, nextId |-> 1, shown |-> {},
   cache |-> [url \in Urls |-> {}],
   \* what was observed of the last event
   message |-> NoMessage, scheduled |-> {}, superseded |-> {}, cancelled |-> {},
   request |-> NoRequest, answer |-> NoAnswer, put |-> FALSE,
   lastCacheable |-> [url \in Urls |-> {}]]

\* the timers that were pending under tag when a message about tag arrived
PendingUnder(w, tags) ==
  {s.id : s \in {s \in w.scheduled : s.tag \in tags}}
    \ (w.shown \cup w.superseded \cup w.cancelled)

\* clearTimeout(pendingNotifications[tag]) when that value is truthy
ClearPending(w, tag) ==
  IF Truthy2(w.pendingNotifications, tag)
  THEN {t \in w.timeouts : t.id \notin TimerAt(w.pendingNotifications, tag)}
  ELSE w.timeouts

\* message listener, type "schedule-notification"
ScheduleNotification(tag) ==
  /\ worker.nextId <= MaxTimers
  /\ worker' = [worker EXCEPT
       !.timeouts = ClearPending(worker, tag)
                      \cup {[id |-> worker.nextId, tag |-> tag]},
       !.pendingNotifications =
           PutKey(DeleteKey(@, tag), tag, worker.nextId),
       !.nextId = @ + 1,
       !.message = [type |-> "schedule-notification", tag |-> tag],
       !.scheduled = @ \cup {[id |-> worker.nextId, tag |-> tag]},
       !.superseded = @ \cup PendingUnder(worker, {tag})]
  /\ UNCHANGED <<graphVars, search>>

\* the callback of a notification timer
NotificationFire ==
  /\ \E t \in worker.timeouts :
       worker' = [worker EXCEPT
         !.timeouts = @ \ {t},
         !.pendingNotifications = DeleteKey(@, t.tag),
         !.shown = @ \cup {t.id},
         !.message = [type |-> "timeout", tag |-> t.tag]]
  /\ UNCHANGED <<graphVars, search>>

\* message listener, type "cancel-notification"
CancelNotification(tag) ==
  /\ worker' = [worker EXCEPT
       !.timeouts = ClearPending(worker, tag),
       !.pendingNotifications =
           IF Truthy2(@, tag) THEN DeleteKey(@, tag) ELSE @,
       !.message = [type |-> "cancel-notification", tag |-> tag],
       !.cancelled = @ \cup PendingUnder(worker, {tag})]
  /\ UNCHANGED <<graphVars, search>>

\* message listener, type "cancel-all-notifications"
CancelAllNotifications ==
  /\ worker' = [worker EXCEPT
       !.timeouts =
           {t \in @ : \A tag \in OwnKeys(worker.pendingNotifications) :
                        t.id \notin worker.pendingNotifications[tag]},
       !.pendingNotifications = [tag \in Tags |-> {}],
       !.message = [type |-> "cancel-all-notifications", tag |-> ""],
       !.cancelled = @ \cup PendingUnder(worker, Tags)]
  /\ UNCHANGED <<graphVars, search>>

\* serveFromCache: cache.match(request.url), undefined when nothing matches
serveFromCache(w, url) == [by |-> "cache", response |-> w.cache[url]]

\* fetch listener: the page requests url with method, the network gives outcome
Fetch(method, url, outcome) ==
  LET stored == /\ method = "GET" /\ outcome # NetworkError
                /\ cacheable(outcome) /\ ~putRejects(outcome)
      answer ==
        IF method # "GET" THEN [by |-> "browser", response |-> {}]
        ELSE IF outcome = NetworkError THEN serveFromCache(worker, url)
        ELSE IF cacheable(outcome) /\ putRejects(outcome)
             THEN serveFromCache(worker, url)
        ELSE [by |-> "network", response |-> {outcome}]
  IN
  /\ worker' = [worker EXCEPT
       !.cache = IF stored THEN [@ EXCEPT ![url] = {outcome}] ELSE @,
       !.request = [method |-> method, url |-> url, outcome |-> outcome],
       !.answer = answer,
       !.put = stored,
       !.lastCacheable =
           IF method = "GET" /\ outcome # NetworkError /\ cacheable(outcome)
           THEN [@ EXCEPT ![url] = {outcome}] ELSE @]
  /\ UNCHANGED <<graphVars, search>>

\* the scripts beside graph.js before any event
SideIdle == search = SearchStart(TRUE) /\ worker = WorkerStart

(***************************************************************************)
(* Handlers as steps                                                       *)
(***************************************************************************)
\* the state the handlers work on, with the renderer spy reset
Cur ==
  [currentView |-> currentView, storedView |-> storedView, cachedData |-> cachedData,
   graphRendered |-> graphRendered, gridRendered |-> gridRendered,
   radialRendered |-> radialRendered, timeRendered |-> timeRendered,
   allTodos |-> allTodos, activeContainers |-> activeContainers, legend |-> legend,
   graphOut |-> graphOut, gridOut |-> gridOut, radialOut |-> radialOut,
   timeDom |-> timeDom, hover |-> hover, currentNodeId |-> currentNodeId,
   todoFetches |-> todoFetches, timers |-> timers,
   invoked |-> {}, renders |-> renders, cachedFrom |-> cachedFrom]

Commit(st, op) ==
  /\ currentView' = st.currentView
  /\ storedView' = st.storedView
  /\ cachedData' = st.cachedData
  /\ graphRendered' = st.graphRendered
  /\ gridRendered' = st.gridRendered
  /\ radialRendered' = st.radialRendered
  /\ timeRendered' = st.timeRendered
  /\ allTodos' = st.allTodos
  /\ activeContainers' = st.activeContainers
  /\ legend' = st.legend
  /\ graphOut' = st.graphOut
  /\ gridOut' = st.gridOut
  /\ radialOut' = st.radialOut
  /\ timeDom' = st.timeDom
  /\ hover' = st.hover
  /\ currentNodeId' = st.currentNodeId
  /\ todoFetches' = st.todoFetches
  /\ timers' = st.timers
  /\ invoked' = st.invoked
  /\ renders' = st.renders
  /\ cachedFrom' = st.cachedFrom
  /\ lastOp' = op

\* callbacks pending once a handler has left the state st and the note loads nl
Pending(st, nl, sf) ==
  Len(nl) + Len(st.todoFetches) + Len(st.timers) + (IF sf = "pending" THEN 1 ELSE 0)

\* the script has run to the end of init(): nothing is rendered, the startup
\* load is pending, and the page as served shows the graph container
ScriptStart ==
  [currentView |-> StoredOr(storedView, "graph"),
   timeFilterState |-> [mode |-> StoredOr(filterStore.mode, "all"),
                       customFrom |-> StoredOr(filterStore.customFrom, ""),
                       customTo |-> StoredOr(filterStore.customTo, "")],
   cachedData |-> NoData,
   graphRendered |-> FALSE,
   gridRendered |-> FALSE,
   radialRendered |-> FALSE,
   timeRendered |-> FALSE,
   allTodos |-> {},
   activeContainers |-> {"graph"},
   legend |-> "notes",
   graphOut |-> NoOutput,
   gridOut |-> NoOutput,
   radialOut |-> NoOutput,
   timeDom |-> EmptyTimeDom,
   hover |-> NoHover,
   currentNodeId |-> {},
   noteLoads |-> <<[origin |-> "init", afterFetch |-> FALSE]>>,
   staticFetch |-> "none",
   todoFetches |-> <<>>,
   timers |-> <<>>,
   uncaught |-> {},
   logged |-> {},
   lastOp |-> "init",
   invoked |-> {},
   renders |-> [v \in ViewNames |-> 0],
   cachedFrom |-> "none"]

\* every variable of the script and of the document holds its start value
ScriptLoaded ==
  /\ currentView = ScriptStart.currentView
  /\ timeFilterState = ScriptStart.timeFilterState
  /\ cachedData = ScriptStart.cachedData
  /\ graphRendered = ScriptStart.graphRendered
  /\ gridRendered = ScriptStart.gridRendered
  /\ radialRendered = ScriptStart.radialRendered
  /\ timeRendered = ScriptStart.timeRendered
  /\ allTodos = ScriptStart.allTodos
  /\ activeContainers = ScriptStart.activeContainers
  /\ legend = ScriptStart.legend
  /\ graphOut = ScriptStart.graphOut
  /\ gridOut = ScriptStart.gridOut
  /\ radialOut = ScriptStart.radialOut
  /\ timeDom = ScriptStart.timeDom
  /\ hover = ScriptStart.hover
  /\ currentNodeId = ScriptStart.currentNodeId
  /\ noteLoads = ScriptStart.noteLoads
  /\ staticFetch = ScriptStart.staticFetch
  /\ todoFetches = ScriptStart.todoFetches
  /\ timers = ScriptStart.timers
  /\ uncaught = ScriptStart.uncaught
  /\ logged = ScriptStart.logged
  /\ lastOp = ScriptStart.lastOp
  /\ invoked = ScriptStart.invoked
  /\ renders = ScriptStart.renders
  /\ cachedFrom = ScriptStart.cachedFrom

\* the storage keys of the time filter, none of them set
NoFilterStored == [mode |-> {}, customFrom |-> {}, customTo |-> {}]

\* a first visit: nothing was ever stored for the time filter
Init ==
  /\ notes = <<>>
  /\ built = NoData
  /\ NoCall
  /\ SideIdle
  /\ dmSync \in BOOLEAN
  /\ noteStore \in (IF dmSync THEN NoteVersions ELSE {0})
  /\ todoStore \in (IF dmSync THEN StartTodoVersions ELSE {0})
  /\ theme = "light"
  /\ storedView \in StoredViews
  /\ navigated = FALSE
  /\ filterStore = NoFilterStored
  /\ ScriptLoaded

\* a load that accepts a list without notes
NotesUsableAlways(ns) == TRUE

\* loadFromIndexedDB rejects on a list without notes
NotesUsable(ns) == ns # <<>>

\* a click on a view toggle button
ToggleClick(v) ==
  /\ ~navigated
  /\ hover = NoHover
  /\ v \in wrappers
  /\ LET st == switchView(Cur, v) IN
       /\ Pending(st, noteLoads, staticFetch) <= MaxPending
       /\ Commit(st, "switchView")
  /\ UNCHANGED <<sideVars, buildVars, filterVars, dmSync, noteStore, todoStore, theme, navigated,
                 noteLoads, staticFetch, uncaught, logged>>

\* the oldest loadFromIndexedDB() promise settles, and its then/catch chain runs
LiveLoadSettle(readOk) ==
  /\ ~navigated
  /\ noteLoads # <<>>
  /\ LET origin == Head(noteLoads).origin
         ns == StoreNotes(noteStore)
         resolved == dmSync /\ readOk /\ NotesUsable(ns)
         from == IF Head(noteLoads).afterFetch THEN "later" ELSE "live"
         st == IF resolved
               THEN [onDataReady(Cur, buildGraphFromNotes(ns)) EXCEPT !.cachedFrom = from]
               ELSE Cur
         sf == IF ~resolved /\ origin = "init" THEN "pending" ELSE staticFetch
     IN /\ Pending(st, Tail(noteLoads), sf) <= MaxPending
        /\ Commit(st, IF resolved THEN "onDataReady" ELSE "loadRejected")
        /\ staticFetch' = sf
  /\ noteLoads' = Tail(noteLoads)
  /\ UNCHANGED <<sideVars, buildVars, filterVars, dmSync, noteStore, todoStore, theme, navigated,
                 uncaught, logged>>

\* a catch that swallows the error
FetchFailureSilent(log) == log

\* .catch(function(err) { console.error('Graph data load error:', err); })
FetchFailureLogged(log) == log \cup {"Graph data load error"}

\* fetch(GRAPH_DATA_URL).then(res.json()).then(onDataReady).catch(console.error)
StaticFetchSettle(fetchOk) ==
  /\ ~navigated
  /\ staticFetch = "pending"
  /\ LET st == IF fetchOk
               THEN [onDataReady(Cur, StaticData) EXCEPT !.cachedFrom = "static"]
               ELSE Cur IN
       /\ Pending(st, noteLoads, "done") <= MaxPending
       /\ Commit(st, IF fetchOk THEN "onDataReady" ELSE "fetchFailed")
  /\ staticFetch' = IF fetchOk THEN "done" ELSE "failed"
  /\ logged' = IF fetchOk THEN logged ELSE FetchFailureLogged(logged)
  /\ UNCHANGED <<sideVars, buildVars, filterVars, dmSync, noteStore, todoStore, theme, navigated,
                 noteLoads, uncaught>>

\* the notes store synced to version v and dispatched dm-sync-complete
SyncComplete(v) ==
  /\ ~navigated
  /\ dmSync
  /\ Pending(Cur, noteLoads, staticFetch) + 1 <= MaxPending
  /\ noteStore' = v
  /\ noteLoads' = Append(noteLoads, [origin |-> "sync",
                                      afterFetch |-> staticFetch # "none"])
  /\ Commit(Cur, "dm-sync-complete")
  /\ UNCHANGED <<sideVars, buildVars, filterVars, dmSync, todoStore, theme, navigated,
                 staticFetch, uncaught, logged>>

\* the todos store changed to version v and dispatched dm-todos-updated
TodosUpdated(v) ==
  /\ ~navigated
  /\ dmSync
  /\ todoStore' = v
  /\ LET st == IF currentView = "time"
               THEN [Cur EXCEPT !.todoFetches = Append(@, [kind |-> "update"])]
               ELSE [Cur EXCEPT !.timeRendered = FALSE, !.allTodos = {},
                                !.renders["time"] = 0]
     IN /\ Pending(st, noteLoads, staticFetch) <= MaxPending
        /\ Commit(st, "dm-todos-updated")
  /\ UNCHANGED <<sideVars, buildVars, filterVars, dmSync, noteStore, theme, navigated,
                 noteLoads, staticFetch, uncaught, logged>>

\* the then-callback of renderTimeView's getAllTodos()
TimeViewLoaded(st, todos) ==
  IF todos = 0 THEN showTimeEmpty(st, "No tasks yet")
  ELSE [st EXCEPT !.allTodos = {todos},
                  !.timeDom.bars = @ + 1,
                  !.timeDom.areas =
                      Append(@, [shows |-> {todos}, fading |-> FALSE,
                                 charts |-> DrawsCharts({todos}, timeFilterState),
                                 mode |-> timeFilterState.mode]),
                  !.timeDom.legendItems = DrawsCharts({todos}, timeFilterState)]

\* the then-callback of the dm-todos-updated listener's getAllTodos()
TodosRefreshed(st, todos) ==
  triggerTimeContentUpdate([st EXCEPT !.allTodos = {todos}])

\* the oldest getAllTodos() promise settles
TodoFetchSettle(readOk) ==
  /\ ~navigated
  /\ todoFetches # <<>>
  /\ LET kind == Head(todoFetches).kind
         rest == [Cur EXCEPT !.todoFetches = Tail(@)]
         st == IF kind = "render"
               THEN IF readOk THEN TimeViewLoaded(rest, todoStore)
                    ELSE showTimeEmpty(rest, "Error loading data")
               ELSE IF readOk THEN TodosRefreshed(rest, todoStore) ELSE rest
     IN /\ Commit(st, IF kind = "render" THEN "timeViewLoaded" ELSE "todosRefreshed")
        /\ logged' = IF kind = "render" /\ ~readOk
                     THEN logged \cup {"Time view: failed to load todos"} ELSE logged
  /\ UNCHANGED <<sideVars, buildVars, filterVars, dmSync, noteStore, todoStore, theme, navigated,
                 noteLoads, staticFetch, uncaught>>

\* the data-theme attribute is set; the observer schedules the settle callback
ThemeChange(t) ==
  /\ ~navigated
  /\ t # theme
  /\ Pending(Cur, noteLoads, staticFetch) + 1 <= MaxPending
  /\ theme' = t
  /\ Commit([Cur EXCEPT !.timers = Append(@, [kind |-> "theme", live |-> TRUE])],
            "themeChange")
  /\ UNCHANGED <<sideVars, buildVars, filterVars, dmSync, noteStore, todoStore, navigated,
                 noteLoads, staticFetch, uncaught, logged>>

RemoveAt(s, k) == SubSeq(s, 1, k - 1) \o SubSeq(s, k + 1, Len(s))

\* a 250 ms timer fires after everything scheduled before it, a 50 ms timer
\* after the 50 ms timers scheduled before it
MayFire(k) ==
  IF timers[k].kind = "time" THEN k = 1
  ELSE \A j \in 1..(k - 1) : timers[j].kind # "theme"

\* the settle callback of a theme change
ThemeSettle(k) ==
  /\ ~navigated
  /\ k \in 1..Len(timers)
  /\ timers[k].kind = "theme"
  /\ MayFire(k)
  /\ LET st == renderCurrentView(Invalidate([Cur EXCEPT !.timers = RemoveAt(@, k)])) IN
       /\ Pending(st, noteLoads, staticFetch) <= MaxPending
       /\ Commit(st, "themeSettle")
  /\ UNCHANGED <<sideVars, buildVars, filterVars, envVars, noteLoads, staticFetch, uncaught, logged>>

\* renderTimeContent into the area the timer holds, from _allTodos as it is now;
\* on null the area is emptied and todos.filter throws; the time legend is
\* set also when the area has left the document
TimeContentFire ==
  /\ ~navigated
  /\ timers # <<>>
  /\ timers[1].kind = "time"
  /\ LET rest == [Cur EXCEPT !.timers = Tail(@)]
         charts == DrawsCharts(allTodos, timeFilterState)
         st == IF allTodos = {}
               THEN IF timers[1].live
                    THEN [rest EXCEPT !.timeDom.areas[1].shows = {},
                                      !.timeDom.areas[1].charts = FALSE]
                    ELSE rest
               ELSE IF timers[1].live
               THEN [rest EXCEPT
                       !.timeDom.areas[1] = [shows |-> allTodos, fading |-> FALSE,
                                             charts |-> charts,
                                             mode |-> timeFilterState.mode],
                       !.timeDom.legendItems = charts]
               ELSE [rest EXCEPT !.timeDom.legendItems = charts]
     IN Commit(st, "timeContentFire")
  /\ uncaught' = IF allTodos = {} THEN uncaught \cup {"renderTimeContent"} ELSE uncaught
  /\ UNCHANGED <<sideVars, buildVars, filterVars, envVars, noteLoads, staticFetch, logged>>

\* the filter buttons of the bar and the values the date inputs can hold
FilterKeys == {"week", "month", "year", "all", "custom"}
DateInputs == {"2024-03-01", "2024-03-31"}

\* a localStorage write that is lost
setItemLost(store, key, value) == store

\* localStorage.setItem(key, value)
setItem(store, key, value) == [store EXCEPT ![key] = {value}]

\* the filter bar is on screen
FilterBarShown ==
  /\ currentView = "time" /\ "time" \in activeContainers
  /\ timeDom.bars > 0

\* onTimeFilterClick: a click on a filter button
FilterClick(filterKey) ==
  /\ ~navigated
  /\ FilterBarShown
  /\ timeFilterState' = [timeFilterState EXCEPT !.mode = filterKey]
  /\ filterStore' = setItem(filterStore, "mode", filterKey)
  /\ LET st == IF filterKey = "custom" THEN Cur ELSE triggerTimeContentUpdate(Cur) IN
       /\ Pending(st, noteLoads, staticFetch) <= MaxPending
       /\ Commit(st, "onTimeFilterClick")
  /\ UNCHANGED <<sideVars, buildVars, envVars, noteLoads, staticFetch, uncaught, logged>>

\* onCustomDateApply: the Apply button, or Enter in a date input, with the
\* inputs holding from and to
CustomApply(from, to) ==
  /\ ~navigated
  /\ FilterBarShown
  /\ timeFilterState.mode = "custom"
  /\ timeFilterState' = [timeFilterState EXCEPT !.customFrom = from, !.customTo = to]
  /\ filterStore' = setItem(setItem(filterStore, "customFrom", from), "customTo", to)
  /\ LET st == triggerTimeContentUpdate(Cur) IN
       /\ Pending(st, noteLoads, staticFetch) <= MaxPending
       /\ Commit(st, "onCustomDateApply")
  /\ UNCHANGED <<sideVars, buildVars, envVars, noteLoads, staticFetch, uncaught, logged>>

\* the page is loaded again: the script starts over from what localStorage
\* holds, and the callbacks of the page before are gone
Reload ==
  /\ ~navigated
  /\ lastOp # "init"
  /\ UNCHANGED <<sideVars, buildVars, envVars, filterStore>>
  /\ currentView' = ScriptStart.currentView
  /\ timeFilterState' = ScriptStart.timeFilterState
  /\ cachedData' = ScriptStart.cachedData
  /\ graphRendered' = ScriptStart.graphRendered
  /\ gridRendered' = ScriptStart.gridRendered
  /\ radialRendered' = ScriptStart.radialRendered
  /\ timeRendered' = ScriptStart.timeRendered
  /\ allTodos' = ScriptStart.allTodos
  /\ activeContainers' = ScriptStart.activeContainers
  /\ legend' = ScriptStart.legend
  /\ graphOut' = ScriptStart.graphOut
  /\ gridOut' = ScriptStart.gridOut
  /\ radialOut' = ScriptStart.radialOut
  /\ timeDom' = ScriptStart.timeDom
  /\ hover' = ScriptStart.hover
  /\ currentNodeId' = ScriptStart.currentNodeId
  /\ noteLoads' = ScriptStart.noteLoads
  /\ staticFetch' = ScriptStart.staticFetch
  /\ todoFetches' = ScriptStart.todoFetches
  /\ timers' = ScriptStart.timers
  /\ uncaught' = ScriptStart.uncaught
  /\ logged' = ScriptStart.logged
  /\ lastOp' = ScriptStart.lastOp
  /\ invoked' = ScriptStart.invoked
  /\ renders' = ScriptStart.renders
  /\ cachedFrom' = ScriptStart.cachedFrom

\* an adjacency that follows the links from their source only
onHoverOutgoing(node, linksData) ==
  {node.id} \cup {linksData[e].target :
                    e \in {e \in 1..Len(linksData) : linksData[e].source = node.id}}

\* onHover: the hovered node and the ends of its links stay lit, the rest dims
onHover(node, linksData) ==
  {node.id} \cup UNION {{linksData[e].source, linksData[e].target} :
                          e \in {e \in 1..Len(linksData) :
                                   \/ linksData[e].target = node.id
                                   \/ linksData[e].source = node.id}}

\* the attributes the transitions of onHover end at
onHoverStyle(out, k) ==
  LET node == out.nodes[k]
      adjacent == onHover(node, out.links)
      touches(e) == out.links[e].source = node.id \/ out.links[e].target = node.id
  IN [circles |-> [j \in DOMAIN out.nodes |->
                     [opacity |-> IF out.nodes[j].id \in adjacent THEN 100 ELSE 15,
                      r |-> IF out.nodes[j].id \in adjacent /\ out.nodes[j].id = node.id
                            THEN 13 ELSE 10]],
      texts |-> [j \in DOMAIN out.nodes |->
                   [opacity |-> IF out.nodes[j].id \in adjacent THEN 100 ELSE 10,
                    size |-> IF out.nodes[j].id = node.id THEN "0.9rem" ELSE "0.75rem"]],
      lines |-> [e \in DOMAIN out.links |->
                   [stroke |-> <<out.theme, IF touches(e) THEN "EDGE_HOVER_COLOR"
                                            ELSE "EDGE_DIM_COLOR">>,
                    width |-> IF touches(e) THEN 25 ELSE 10]]]

\* the attributes the transitions of onHoverEnd end at
onHoverEnd(out) ==
  [circles |-> [j \in DOMAIN out.nodes |-> [opacity |-> 100, r |-> 10]],
   texts |-> [j \in DOMAIN out.nodes |-> [opacity |-> 100, size |-> "0.75rem"]],
   lines |-> [e \in DOMAIN out.links |->
                [stroke |-> <<out.theme, "EDGE_COLOR">>, width |-> 15]]]

\* mouseover on node or label k of the graph
GraphHover(k) ==
  /\ ~navigated
  /\ currentView = "graph" /\ "graph" \in activeContainers
  /\ graphOut # NoOutput
  /\ k \in 1..Len(graphOut.nodes)
  /\ Commit([Cur EXCEPT
               !.hover = [view |-> "graph", k |-> k,
                          adjacent |-> onHover(graphOut.nodes[k], graphOut.links),
                          before |-> IF hover.view = "graph" THEN hover.before
                                     ELSE graphOut.style],
               !.graphOut.style = onHoverStyle(graphOut, k)],
            "onHover")
  /\ UNCHANGED <<sideVars, buildVars, filterVars, envVars, noteLoads, staticFetch, uncaught, logged>>

\* mouseover on leaf arc k of the sunburst
RadialHover(k) ==
  /\ ~navigated
  /\ currentView = "radial" /\ "radial" \in activeContainers
  /\ radialOut # NoOutput
  /\ k \in 1..Len(radialOut.leaves)
  /\ Commit([Cur EXCEPT !.hover = [view |-> "radial", k |-> k, adjacent |-> {},
                                   before |-> <<>>]],
            "onHover")
  /\ UNCHANGED <<sideVars, buildVars, filterVars, envVars, noteLoads, staticFetch, uncaught, logged>>

\* mouseout
HoverEnd ==
  /\ ~navigated
  /\ hover # NoHover
  /\ Commit([Cur EXCEPT
               !.hover = NoHover,
               !.graphOut = IF hover.view = "graph" /\ @ # NoOutput
                            THEN [@ EXCEPT !.style = onHoverEnd(graphOut)] ELSE @],
            "onHoverEnd")
  /\ UNCHANGED <<sideVars, buildVars, filterVars, envVars, noteLoads, staticFetch, uncaught, logged>>

\* a wheel or drag gesture on the graph: the zoom handler sets the transform
GraphZoom ==
  /\ ~navigated
  /\ currentView = "graph" /\ "graph" \in activeContainers
  /\ graphOut # NoOutput
  /\ Commit([Cur EXCEPT !.graphOut.zoomed = TRUE], "zoom")
  /\ UNCHANGED <<sideVars, buildVars, filterVars, envVars, noteLoads, staticFetch, uncaught, logged>>

\* the page is resized: the resize observers of the drawn svgs set their size
Resize ==
  /\ ~navigated
  /\ graphOut # NoOutput \/ radialOut # NoOutput
  /\ Commit([Cur EXCEPT
               !.graphOut = IF @ = NoOutput THEN @ ELSE [@ EXCEPT !.resized = TRUE],
               !.radialOut = IF @ = NoOutput THEN @ ELSE [@ EXCEPT !.resized = TRUE]],
            "resize")
  /\ UNCHANGED <<sideVars, buildVars, filterVars, envVars, noteLoads, staticFetch, uncaught, logged>>

\* a click on a node, label, card or arc of the active view: the page is left
Click ==
  /\ ~navigated
  /\ \/ currentView = "graph" /\ "graph" \in activeContainers
        /\ graphOut # NoOutput /\ graphOut.nodes # <<>>
     \/ currentView = "grid" /\ "grid" \in activeContainers
        /\ gridOut # NoOutput /\ gridOut.cards # <<>>
     \/ currentView = "radial" /\ "radial" \in activeContainers
        /\ radialOut # NoOutput /\ radialOut.leaves # <<>>
  /\ navigated' = TRUE
  /\ Commit(Cur, "click")
  /\ UNCHANGED <<sideVars, buildVars, filterVars, dmSync, noteStore, todoStore, theme,
                 noteLoads, staticFetch, uncaught, logged>>

\* the drawn elements of the graph and of the sunburst
GraphNodes == IF graphOut = NoOutput THEN {} ELSE 1..Len(graphOut.nodes)
RadialLeaves == IF radialOut = NoOutput THEN {} ELSE 1..Len(radialOut.leaves)

Next ==
  \/ \E v \in ViewNames : ToggleClick(v)
  \/ \E ok \in BOOLEAN : LiveLoadSettle(ok)
  \/ \E ok \in BOOLEAN : StaticFetchSettle(ok)
  \/ \E v \in NoteVersions : SyncComplete(v)
  \/ \E v \in TodoVersions : TodosUpdated(v)
  \/ \E ok \in BOOLEAN : TodoFetchSettle(ok)
  \/ \E t \in Themes : ThemeChange(t)
  \/ \E k \in 1..MaxPending : ThemeSettle(k)
  \/ TimeContentFire
  \/ \E k \in GraphNodes : GraphHover(k)
  \/ \E k \in RadialLeaves : RadialHover(k)
  \/ HoverEnd
  \/ GraphZoom
  \/ Resize
  \/ Click
  \/ \E key \in FilterKeys : FilterClick(key)
  \/ \E from, to \in DateInputs : CustomApply(from, to)
  \/ Reload

Spec == Init /\ [][Next]_vars

\* loading and view switching, with re-syncs of the notes store
NextCoord ==
  \/ \E v \in ViewNames : ToggleClick(v)
  \/ \E ok \in BOOLEAN : LiveLoadSettle(ok)
  \/ \E ok \in BOOLEAN : StaticFetchSettle(ok)
  \/ \E v \in NoteVersions : SyncComplete(v)
  \/ \E ok \in BOOLEAN : TodoFetchSettle(ok)

SpecCoord == Init /\ [][NextCoord]_vars

\* loading and view switching, with theme changes
NextTheme ==
  \/ \E v \in ViewNames : ToggleClick(v)
  \/ \E ok \in BOOLEAN : LiveLoadSettle(ok)
  \/ \E ok \in BOOLEAN : StaticFetchSettle(ok)
  \/ \E ok \in BOOLEAN : TodoFetchSettle(ok)
  \/ \E t \in Themes : ThemeChange(t)
  \/ \E k \in 1..MaxPending : ThemeSettle(k)

SpecTheme == Init /\ [][NextTheme]_vars

\* loading and view switching, with changes of the todos store
NextTime ==
  \/ \E v \in ViewNames : ToggleClick(v)
  \/ \E ok \in BOOLEAN : LiveLoadSettle(ok)
  \/ \E ok \in BOOLEAN : StaticFetchSettle(ok)
  \/ \E v \in TodoVersions : TodosUpdated(v)
  \/ \E ok \in BOOLEAN : TodoFetchSettle(ok)
  \/ TimeContentFire

SpecTime == Init /\ [][NextTime]_vars

\* loading and view switching, with pointer interactions
NextInteract ==
  \/ \E v \in ViewNames : ToggleClick(v)
  \/ \E ok \in BOOLEAN : LiveLoadSettle(ok)
  \/ \E ok \in BOOLEAN : StaticFetchSettle(ok)
  \/ \E ok \in BOOLEAN : TodoFetchSettle(ok)
  \/ \E k \in GraphNodes : GraphHover(k)
  \/ \E k \in RadialLeaves : RadialHover(k)
  \/ HoverEnd
  \/ GraphZoom
  \/ Resize
  \/ Click

SpecInteract == Init /\ [][NextInteract]_vars

\* loading and view switching, with the time filter and page reloads
NextFilter ==
  \/ \E v \in ViewNames : ToggleClick(v)
  \/ \E ok \in BOOLEAN : LiveLoadSettle(ok)
  \/ \E ok \in BOOLEAN : StaticFetchSettle(ok)
  \/ \E ok \in BOOLEAN : TodoFetchSettle(ok)
  \/ \E key \in FilterKeys : FilterClick(key)
  \/ \E from, to \in DateInputs : CustomApply(from, to)
  \/ TimeContentFire
  \/ Reload

\* a first visit to a page whose stores hold notes and todos
InitFilter ==
  /\ notes = <<>>
  /\ built = NoData
  /\ NoCall
  /\ SideIdle
  /\ dmSync = TRUE
  /\ noteStore \in NoteVersions \ {0}
  /\ todoStore \in StartTodoVersions \ {0}
  /\ theme = "light"
  /\ storedView = {}
  /\ navigated = FALSE
  /\ filterStore = NoFilterStored
  /\ ScriptLoaded

SpecFilter == InitFilter /\ [][NextFilter]_vars

(***************************************************************************)
(* Normalizer runs: any bounded list of note records, then one call        *)
(***************************************************************************)
MaxNotes == 4

NoteIds == {IdA, IdC, IdABarB, IdBBarC}
NoteTags == {{}, {<<"t1">>}, {<<"t2">>}, {<<"t2", "t1", "t2">>}}
NoteRecords ==
  [id : NoteIds, title : {"", "Note"}, destination : {"topic"}, tags : NoteTags]

\* lists of at most MaxNotes records; the store keys records by id
NoteLists ==
  UNION {{l \in [1..n -> NoteRecords] :
            \A p, q \in 1..n : p # q => l[p].id # l[q].id} : n \in 0..MaxNotes}

\* the coordinator at rest on a page without sync
GraphPageIdle ==
  /\ dmSync = FALSE /\ noteStore = 0 /\ todoStore = 0
  /\ theme = "light" /\ storedView = {} /\ navigated = FALSE
  /\ currentView = "graph" /\ cachedData = NoData
  /\ graphRendered = FALSE /\ gridRendered = FALSE
  /\ radialRendered = FALSE /\ timeRendered = FALSE
  /\ allTodos = {} /\ activeContainers = {"graph"} /\ legend = "notes"
  /\ hover = NoHover /\ currentNodeId = {}
  /\ graphOut = NoOutput /\ gridOut = NoOutput /\ radialOut = NoOutput
  /\ timeDom = EmptyTimeDom
  /\ noteLoads = <<>> /\ staticFetch = "none" /\ todoFetches = <<>> /\ timers = <<>>
  /\ uncaught = {} /\ logged = {}
  /\ lastOp = "init" /\ invoked = {} /\ renders = [v \in ViewNames |-> 0]
  /\ cachedFrom = "none"
  /\ filterStore = NoFilterStored
  /\ timeFilterState = [mode |-> "all", customFrom |-> "", customTo |-> ""]

CoordinatorIdle == SideIdle /\ GraphPageIdle

InitBuild ==
  /\ notes \in NoteLists
  /\ built = NoData
  /\ NoCall
  /\ CoordinatorIdle

RunBuild ==
  /\ built = NoData
  /\ built' = buildGraphFromNotes(notes)
  /\ UNCHANGED <<sideVars, notes, callArgs, callResult, envVars, viewVars, asyncVars, spyVars, filterVars>>

NextBuild == RunBuild

SpecBuild == InitBuild /\ [][NextBuild]_vars

\* the tags of a note record, as a set
NoteTagSet(note) ==
  LET t == OrElse(note.tags, <<>>) IN {t[k] : k \in 1..Len(t)}

TitledNotes == {k \in 1..Len(notes) : notes[k].title # ""}

EdgesJoining(g, idA, idB) ==
  {e \in 1..Len(g.edges) : {g.edges[e].source, g.edges[e].target} = {idA, idB}}

\* C6: every pair of distinct titled notes sharing a tag is joined by exactly one
\* edge, of type 'tag'; no edge is a self-loop, no two edges join the same pair,
\* and every edge joins two titled notes that share a tag.
DedupInvariant ==
  built # NoData =>
    /\ \A p, q \in TitledNotes :
         (p # q /\ NoteTagSet(notes[p]) \cap NoteTagSet(notes[q]) # {}) =>
           /\ Cardinality(EdgesJoining(built, notes[p].id, notes[q].id)) = 1
           /\ \A e \in EdgesJoining(built, notes[p].id, notes[q].id) :
                built.edges[e].type = "tag"
    /\ \A e \in 1..Len(built.edges) : built.edges[e].source # built.edges[e].target
    /\ \A e, f \in 1..Len(built.edges) :
         e # f => {built.edges[e].source, built.edges[e].target}
                    # {built.edges[f].source, built.edges[f].target}
    /\ \A e \in 1..Len(built.edges) :
         \E p, q \in TitledNotes :
           /\ p # q
           /\ {notes[p].id, notes[q].id} = {built.edges[e].source, built.edges[e].target}
           /\ NoteTagSet(notes[p]) \cap NoteTagSet(notes[q]) # {}

\* two titled notes share a tag and no edge joins them: their pair received the
\* key of a pair listed before
DedupKeyClash ==
  /\ built # NoData
  /\ \E p, q \in TitledNotes :
       /\ p # q
       /\ NoteTagSet(notes[p]) \cap NoteTagSet(notes[q]) # {}
       /\ EdgesJoining(built, notes[p].id, notes[q].id) = {}

\* C7: number_neighbours of every returned node is the number of returned edges
\* having the node's id as source or target.
NeighbourCountInvariant ==
  built # NoData =>
    \A k \in 1..Len(built.nodes) :
      built.nodes[k].number_neighbours =
        Cardinality({e \in 1..Len(built.edges) :
                       \/ built.edges[e].source = built.nodes[k].id
                       \/ built.edges[e].target = built.nodes[k].id})

\* a node with two neighbours next to nodes with one
NeighbourCountWitness ==
  /\ built # NoData
  /\ \E k \in 1..Len(built.nodes) : built.nodes[k].number_neighbours = 2
  /\ \E k \in 1..Len(built.nodes) : built.nodes[k].number_neighbours = 1

(***************************************************************************)
(* Time content runs: a bounded todo list, a filter and a day, then one    *)
(* call of renderTimeContent                                               *)
(***************************************************************************)
MaxTodos == 2

TodoLists(records) == UNION {[1..n -> records] : n \in 0..MaxTodos}

\* a completed top-level todo without timestamps
PlainTodo ==
  [done |-> TRUE, actualMin |-> {5}, estimatedMin |-> {}, parentId |-> {},
   category |-> {}, completedAt |-> {}, updatedAt |-> {}, createdAt |-> {}]

NoFilter == [mode |-> "all", customFrom |-> "", customTo |-> ""]

\* completed todos that differ in category, estimate and actual time
AggregateTodos ==
  {[PlainTodo EXCEPT !.category = c, !.estimatedMin = e, !.actualMin = a] :
     c \in {{}, {"A"}, {"B"}, {"constructor"}}, e \in {{}, {0}, {20}}, a \in {{5}, {45}}}

InitAggregate ==
  /\ notes = <<>>
  /\ built = NoData
  /\ callArgs \in [todos : TodoLists(AggregateTodos), fs : {NoFilter},
                    now : {<<2024, 3, 31>>}]
  /\ callResult = NoData
  /\ CoordinatorIdle

RunTimeContent ==
  /\ callResult = NoData
  /\ callResult' = renderTimeContent(callArgs.todos, callArgs.fs, callArgs.now)
  /\ UNCHANGED <<sideVars, notes, built, callArgs, envVars, viewVars, asyncVars, spyVars, filterVars>>

NextAggregate == RunTimeContent

SpecAggregate == InitAggregate /\ [][NextAggregate]_vars

\* the todos of the call that reach aggregation
Survivors ==
  completedTodos(callArgs.todos, getTimeFilterRange(callArgs.fs, callArgs.now))

\* what a todo is to contribute: its category or the default label, its own
\* estimate or 25 when it has none, its actual minutes
LabelOf(t) == IF t.category = {} THEN Uncategorized ELSE CHOOSE c \in t.category : TRUE
EstimateOf(t) ==
  IF t.estimatedMin = {} THEN DefaultEstimate ELSE CHOOSE n \in t.estimatedMin : TRUE
MinutesOf(t) == CHOOSE n \in t.actualMin : TRUE

RECURSIVE SumAt(_, _)
SumAt(f, K) ==
  IF K = {} THEN 0 ELSE LET k == CHOOSE j \in K : TRUE IN f[k] + SumAt(f, K \ {k})

Labelled(c) == {k \in 1..Len(Survivors) : LabelOf(Survivors[k]) = c}
Estimates == [k \in 1..Len(Survivors) |-> EstimateOf(Survivors[k])]
Minutes == [k \in 1..Len(Survivors) |-> MinutesOf(Survivors[k])]

Aggregated == callResult # NoData /\ ~callResult.nodata

\* C13: the category data holds exactly one entry per distinct category of the
\* surviving todos (no category: the default label); an entry's estimated,
\* actual and count are the sum of the estimates, the sum of actualMin and the
\* number of its todos; entries are sorted by actual descending; the stats are
\* the number of survivors, the sum of all actual, the sum of all estimated,
\* and actual / 25 rounded to one decimal.
AggregationCorrect ==
  Aggregated =>
    LET data == callResult.categoryData IN
    /\ {data[i].name : i \in 1..Len(data)} = {LabelOf(Survivors[k]) : k \in 1..Len(Survivors)}
    /\ \A i, j \in 1..Len(data) : i # j => data[i].name # data[j].name
    /\ \A i \in 1..Len(data) :
         /\ data[i].estimated = SumAt(Estimates, Labelled(data[i].name))
         /\ data[i].actual = SumAt(Minutes, Labelled(data[i].name))
         /\ data[i].count = Cardinality(Labelled(data[i].name))
    /\ \A i, j \in 1..Len(data) : i < j => data[i].actual >= data[j].actual
    /\ callResult.completed = Len(Survivors)
    /\ callResult.totalActual = SumAt(Minutes, 1..Len(Survivors))
    /\ callResult.totalEstimated = SumAt(Estimates, 1..Len(Survivors))
    /\ 2 * (10 * callResult.totalActual - PomodoroMinutes * callResult.totalPomodoros)
         <= PomodoroMinutes
    /\ 2 * (PomodoroMinutes * callResult.totalPomodoros - 10 * callResult.totalActual)
         <= PomodoroMinutes

\* a category that is lost: todos of category 'constructor' were aggregated and
\* the category data has no entry for them
CategoryLost ==
  /\ Aggregated
  /\ \E k \in 1..Len(Survivors) : Survivors[k].category = {"constructor"}
  /\ \A i \in 1..Len(callResult.categoryData) :
       callResult.categoryData[i].name # "constructor"

\* C14: a todo contributes its own estimatedMin to the estimated sums whenever
\* it has one, 0 included, and 25 only when it has none.
EstimateDefaultOnlyWhenAbsent ==
  Aggregated =>
    /\ callResult.totalEstimated = SumAt(Estimates, 1..Len(Survivors))
    /\ \A i \in 1..Len(callResult.categoryData) :
         callResult.categoryData[i].estimated =
           SumAt(Estimates, Labelled(callResult.categoryData[i].name))

\* one todo estimated at 0 minutes, shown with 25 estimated minutes
ZeroEstimateReplaced ==
  /\ Aggregated
  /\ Len(Survivors) = 1
  /\ Survivors[1].estimatedMin = {0}
  /\ callResult.totalEstimated = DefaultEstimate

(***************************************************************************)
(* Eligibility runs: a bounded todo list, a filter and a day, then the     *)
(* two filters of renderTimeContent                                        *)
(***************************************************************************)
MaxDated == 2

DatedLists(records) == UNION {[1..n -> records] : n \in 0..MaxDated}

NumberStamp(day) == {[kind |-> "number", at |-> day]}
StringStamp(text) == {[kind |-> "string", text |-> text]}

\* what completedAt holds: nothing, the number 0, a text that is no date, a
\* date text, a number inside the last week, a Firestore timestamp of the year
\* before
CompletedStamps ==
  {{}, NumberStamp(0), StringStamp("not a date"), StringStamp("2024-03-01"),
   NumberStamp(MakeDay(2024, 3, 28)),
   {[kind |-> "timestamp", at |-> MakeDay(2023, 6, 1)]}}

UpdatedStamps == {{}, NumberStamp(MakeDay(2022, 1, 1))}

\* done or not, with or without actual time, top-level or subtask
Completions ==
  {[done |-> TRUE, actualMin |-> {5}, parentId |-> {}],
   [done |-> FALSE, actualMin |-> {5}, parentId |-> {}],
   [done |-> TRUE, actualMin |-> {}, parentId |-> {}],
   [done |-> TRUE, actualMin |-> {0}, parentId |-> {"parent"}]}

DatedTodos ==
  {[PlainTodo EXCEPT !.done = c.done, !.actualMin = c.actualMin,
                     !.parentId = c.parentId, !.completedAt = s, !.updatedAt = u] :
     c \in Completions, s \in CompletedStamps, u \in UpdatedStamps}

FilterStates ==
  [mode : {"week", "month", "year", "all"}, customFrom : {""}, customTo : {""}]
    \cup [mode : {"custom"}, customFrom : {"", "2024-03-01"}, customTo : {"", "2024-03-31"}]

InitEligible ==
  /\ notes = <<>>
  /\ built = NoData
  /\ callArgs \in [todos : DatedLists(DatedTodos), fs : FilterStates,
                    now : {<<2024, 3, 31>>}]
  /\ callResult = NoData
  /\ CoordinatorIdle

\* lines 1078-1082 of renderTimeContent
RunEligible ==
  /\ callResult = NoData
  /\ LET range == getTimeFilterRange(callArgs.fs, callArgs.now) IN
       callResult' = [todosInRange |-> filterTodosByTimeRange(callArgs.todos, range),
                      completedTodos |-> completedTodos(callArgs.todos, range)]
  /\ UNCHANGED <<sideVars, notes, built, callArgs, envVars, viewVars, asyncVars, spyVars, filterVars>>

NextEligible == RunEligible

SpecEligible == InitEligible /\ [][NextEligible]_vars

ActiveRange == getTimeFilterRange(callArgs.fs, callArgs.now)

\* done, with a non-null actualMin, with parentId null, and inside the range
Eligible(t) ==
  /\ t.done /\ t.actualMin # {} /\ t.parentId = {}
  /\ filterTodosByTimeRange(<<t>>, ActiveRange) = <<t>>

CompletedTopLevel(t) == t.done /\ t.actualMin # {} /\ t.parentId = {}

\* C15: the todos that reach aggregation are exactly the done todos with a
\* non-null actualMin and a null parentId that pass the active range, and
\* filtering by completion first and by range second gives the same list.
EligibilityExact ==
  callResult # NoData =>
    /\ callResult.completedTodos = SelectSeq(callArgs.todos, Eligible)
    /\ callResult.completedTodos =
         filterTodosByTimeRange(SelectSeq(callArgs.todos, CompletedTopLevel), ActiveRange)

\* a subtask inside the week and a completed todo outside it, both dropped, the
\* one by completion and the other by range
EligibilityWitness ==
  /\ callResult # NoData
  /\ callArgs.fs.mode = "week"
  /\ Len(callArgs.todos) = 2
  /\ callArgs.todos[1].parentId # {}
  /\ callArgs.todos[1].completedAt = NumberStamp(MakeDay(2024, 3, 28))
  /\ CompletedTopLevel(callArgs.todos[2])
  /\ callArgs.todos[2].completedAt = StringStamp("2024-03-01")
  /\ callResult.todosInRange = <<callArgs.todos[1]>>
  /\ callResult.completedTodos = <<>>

\* the timestamp of a todo is missing, or is a text that is no date
Undated(t) ==
  \/ dateValOf(t) = {}
  \/ \E v \in dateValOf(t) : v.kind = "string" /\ ~ParseDate(v.text).valid

\* C17: a todo whose timestamp is missing or unparseable passes
\* filterTodosByTimeRange under every filter mode and any custom bounds.
FailOpen ==
  callResult # NoData =>
    SelectSeq(callResult.todosInRange, Undated) = SelectSeq(callArgs.todos, Undated)

\* under a custom range both todos pass: one whose completedAt is no date,
\* though its updatedAt lies before the range, and one without any timestamp
FailOpenWitness ==
  /\ callResult # NoData
  /\ callArgs.fs = [mode |-> "custom", customFrom |-> "2024-03-01", customTo |-> "2024-03-31"]
  /\ Len(callArgs.todos) = 2
  /\ callArgs.todos[1].completedAt = StringStamp("not a date")
  /\ callArgs.todos[1].updatedAt # {}
  /\ callArgs.todos[2].completedAt = {} /\ callArgs.todos[2].updatedAt = {}
  /\ callResult.todosInRange = callArgs.todos

(***************************************************************************)
(* Preset runs: one todo list and one day, filtered under each preset      *)
(***************************************************************************)
MaxPresetTodos == 2

\* days on which the page is open: ends of long months, the leap day, the
\* first days of a month and of a year
Todays ==
  {<<2024, 3, 31>>, <<2023, 3, 30>>, <<2024, 2, 29>>, <<2024, 5, 31>>,
   <<2024, 3, 5>>, <<2024, 1, 1>>}

\* how many days before today a todo was completed: around a week, a month
\* and a year, and after today
DaysBack == {-1, 0, 4, 6, 7, 8, 27, 28, 29, 30, 31, 32, 364, 365, 366, 367}

PresetTodos(now) ==
  {[PlainTodo EXCEPT !.completedAt = NumberStamp(MakeDay(now[1], now[2], now[3]) - back)] :
     back \in DaysBack}
    \cup {PlainTodo, [PlainTodo EXCEPT !.completedAt = StringStamp("not a date")]}

Presets == {"week", "month", "year", "all"}

InitPresets ==
  /\ notes = <<>>
  /\ built = NoData
  /\ callArgs \in UNION {[todos : UNION {[1..n -> PresetTodos(now)] : n \in 0..MaxPresetTodos},
                          now : {now}] : now \in Todays}
  /\ callResult = NoData
  /\ CoordinatorIdle

\* filterTodosByTimeRange(todos, getTimeFilterRange()) with each preset as mode
RunPresets ==
  /\ callResult = NoData
  /\ callResult' =
       [mode \in Presets |->
          filterTodosByTimeRange(
            callArgs.todos,
            getTimeFilterRange([mode |-> mode, customFrom |-> "", customTo |-> ""],
                               callArgs.now))]
  /\ UNCHANGED <<sideVars, notes, built, callArgs, envVars, viewVars, asyncVars, spyVars, filterVars>>

NextPresets == RunPresets

SpecPresets == InitPresets /\ [][NextPresets]_vars

Passing(mode) == {callResult[mode][k] : k \in 1..Len(callResult[mode])}

\* C16: for one current time and one todo list, the todos passing 'all'
\* include those passing 'year', which include those passing 'month', which
\* include those passing 'week'.
FilterMonotone ==
  callResult # NoData =>
    /\ Passing("week") \subseteq Passing("month")
    /\ Passing("month") \subseteq Passing("year")
    /\ Passing("year") \subseteq Passing("all")

\* on March 31 'one month ago' is February 31, which the Date counts on to
\* March 2: a todo of February 28 passes 'year' and 'all' only, and one of
\* March 25 passes every preset
FilterMonotoneWitness ==
  /\ callResult # NoData
  /\ callArgs.now = <<2024, 3, 31>>
  /\ Len(callArgs.todos) = 2
  /\ callArgs.todos[1].completedAt = NumberStamp(MakeDay(2024, 2, 28))
  /\ callArgs.todos[2].completedAt = NumberStamp(MakeDay(2024, 3, 25))
  /\ callResult["week"] = <<callArgs.todos[2]>>
  /\ callResult["month"] = <<callArgs.todos[2]>>
  /\ callResult["year"] = callArgs.todos
  /\ callResult["all"] = callArgs.todos

(***************************************************************************)
(* Node size runs: two nodes, then the sizes initGraph computes for them   *)
(***************************************************************************)
MIN_RADIUS == 8
MAX_RADIUS == 32

Sq(x) == x * x
Smaller(a, b) == IF a <= b THEN a ELSE b
Larger(a, b) == IF a >= b THEN a ELSE b

\* the weight without the clamp
computeNodeSizeUnclamped(node) == Sq(8) * (node.number_neighbours + 1)

\* computeNodeSize, as the square of the radius it returns: the square of
\* 8 * Math.sqrt(n + 1) is 64 (n + 1), and Math.min and Math.max of
\* non-negative numbers choose as they do of their squares
computeNodeSize(node) ==
  Smaller(Larger(Sq(8) * (node.number_neighbours + 1), Sq(MIN_RADIUS)), Sq(MAX_RADIUS))

MaxNeighbours == 20

InitSizes ==
  /\ notes = <<>>
  /\ built = NoData
  /\ callArgs \in [1..2 -> [number_neighbours : 0..MaxNeighbours]]
  /\ callResult = NoData
  /\ CoordinatorIdle

\* nodesData.forEach(node => nodesSize[...] = computeNodeSize(node))
RunSizes ==
  /\ callResult = NoData
  /\ callResult' = [k \in 1..Len(callArgs) |-> computeNodeSize(callArgs[k])]
  /\ UNCHANGED <<sideVars, notes, built, callArgs, envVars, viewVars, asyncVars, spyVars, filterVars>>

NextSizes == RunSizes

SpecSizes == InitSizes /\ [][NextSizes]_vars

\* C18: the radius is 8 * sqrt(n + 1) clamped to [8, 32]: 8 for n = 0, 32
\* whenever 8 * sqrt(n + 1) exceeds 32 (n >= 16), never below 8 or above 32,
\* and no smaller for more neighbours. Radii are compared by their squares.
RadiusClamp ==
  callResult # NoData =>
    /\ \A k \in 1..Len(callArgs) :
         LET n == callArgs[k].number_neighbours IN
         /\ n = 0 => callResult[k] = Sq(8)
         /\ n >= 16 => callResult[k] = Sq(32)
         /\ Sq(8) * (n + 1) > Sq(32) => callResult[k] = Sq(32)
         /\ callResult[k] >= Sq(8) /\ callResult[k] <= Sq(32)
         /\ (Sq(8) * (n + 1) >= Sq(8) /\ Sq(8) * (n + 1) <= Sq(32))
              => callResult[k] = Sq(8) * (n + 1)
    /\ \A j, k \in 1..Len(callArgs) :
         callArgs[j].number_neighbours <= callArgs[k].number_neighbours
           => callResult[j] <= callResult[k]

\* a node without neighbours next to the first node whose weight exceeds 32
RadiusClampWitness ==
  /\ callResult # NoData
  /\ callArgs[1].number_neighbours = 0 /\ callResult[1] = Sq(8)
  /\ callArgs[2].number_neighbours = 16 /\ callResult[2] = Sq(32)

(***************************************************************************)
(* View coordinator: properties                                            *)
(***************************************************************************)
\* the rendered flag of a view; a name without a view has none
Rendered(v) ==
  CASE v = "graph" -> graphRendered
    [] v = "grid" -> gridRendered
    [] v = "radial" -> radialRendered
    [] v = "time" -> timeRendered
    [] OTHER -> FALSE

\* C1: a switchView to a view whose rendered flag is already true invokes no
\* renderer, and no renderer runs a second time before the next invalidation
\* (data refresh, theme change, todos update), however the user switches.
IdempotentReactivation ==
  [][/\ (lastOp' = "switchView" /\ Rendered(currentView')) => invoked' = {}
     /\ \A v \in ViewNames : renders'[v] <= 1]_vars

\* the user came back to the graph, rendered before, after rendering another
\* view, and nothing was rendered again
IdempotentReactivationWitness ==
  /\ lastOp = "switchView"
  /\ currentView = "graph"
  /\ invoked = {}
  /\ graphRendered /\ renders["graph"] = 1
  /\ \E v \in ViewNames \ {"graph"} : Rendered(v) /\ renders[v] = 1

\* what a dataset view shows was computed from the dataset in cachedData
ShowsCurrentData(v) ==
  /\ cachedData # NoData
  /\ v = "graph" =>
       /\ graphOut # NoOutput
       /\ graphOut.nodes = Simulate(cachedData.nodes)
       /\ graphOut.links = LinksArg(cachedData)
  /\ v = "grid" =>
       /\ gridOut # NoOutput
       /\ gridOut.cards = renderGridView(cachedData, theme).cards
  /\ v = "radial" =>
       /\ radialOut # NoOutput
       /\ radialOut.leaves = renderSunburstView(cachedData, theme).leaves

DataViews == {"graph", "grid", "radial"}

\* C2: whenever the rendered flag of graph, grid or radial is true, that view's
\* output was computed from the dataset now in cachedData; onDataReady leaves
\* every flag but the active view's cleared and invokes no renderer but the
\* active view's; and a switch to a dataset view, with data loaded, leaves that
\* view rendered (from the dataset now held).
SnapshotInvariant ==
  [][/\ \A v \in DataViews : Rendered(v)' => ShowsCurrentData(v)'
     /\ lastOp' = "onDataReady" =>
          /\ currentView' = currentView
          /\ invoked' \subseteq {currentView'}
          /\ \A v \in ViewNames \ {currentView'} : ~Rendered(v)'
          /\ currentView' \in DataViews => invoked' = {currentView'}
     /\ (lastOp' = "switchView" /\ cachedData' # NoData) =>
          \A v \in DataViews : v = currentView' => Rendered(v)']_vars

\* the live dataset replaced the static one while the grid was active: the grid
\* was rendered again, the graph still shows the old dataset and is marked stale
SnapshotWitness ==
  /\ lastOp = "onDataReady"
  /\ cachedData = buildGraphFromNotes(StoreNotes(1))
  /\ currentView = "grid" /\ invoked = {"grid"} /\ gridRendered
  /\ graphOut # NoOutput /\ graphOut.nodes = Simulate(StaticData.nodes)
  /\ ~graphRendered

\* C3: the settle callback of a theme change leaves every flag but the active
\* view's cleared, invokes the active view's renderer again and no other, draws
\* with the theme now set, and leaves cachedData as it was; the attribute change
\* itself leaves cachedData as it was, too.
ThemeRebuild ==
  [][/\ lastOp' = "themeSettle" =>
          /\ cachedData' = cachedData
          /\ currentView' = currentView
          /\ invoked' \subseteq {currentView}
          /\ \A v \in ViewNames \ {currentView} : ~Rendered(v)'
          /\ Rendered(currentView) => invoked' = {currentView}
          /\ "graph" \in invoked' => graphOut'.theme = theme
          /\ "grid" \in invoked' => gridOut'.theme = theme
          /\ "radial" \in invoked' => radialOut'.theme = theme
     /\ lastOp' = "themeChange" => cachedData' = cachedData]_vars

\* the grid was redrawn dark over the loaded dataset; the graph, drawn light
\* before, is marked stale
ThemeRebuildWitness ==
  /\ lastOp = "themeSettle"
  /\ theme = "dark"
  /\ cachedData # NoData
  /\ currentView = "grid" /\ invoked = {"grid"} /\ gridRendered
  /\ gridOut.theme = "dark"
  /\ graphOut # NoOutput /\ graphOut.theme = "light" /\ ~graphRendered

\* C4: after every view transition exactly one view container is active, and
\* in every state at most one is.
ExactlyOneActive ==
  /\ Cardinality(activeContainers) <= 1
  /\ lastOp \in {"switchView", "onDataReady"} => Cardinality(activeContainers) = 1

\* the stored name 'list' went through switchView when the data arrived: no
\* container is active
NoActiveContainer ==
  /\ lastOp = "onDataReady"
  /\ cachedData # NoData
  /\ currentView = "list"
  /\ activeContainers = {}

\* C5: the active view is one of graph, grid, radial, time.
CurrentViewValid == currentView \in ViewNames

\* the stored name 'list' is the active view, was written back to the storage,
\* and no view was rendered for it
UnknownViewKept ==
  /\ lastOp = "onDataReady"
  /\ currentView \notin ViewNames
  /\ storedView = {currentView}
  /\ invoked = {}
  /\ \A v \in ViewNames : ~Rendered(v)

\* C10: when the startup load finds no live store, no notes in it, or fails to
\* read it, the static dataset is fetched; once fetched it is the dataset handed
\* to onDataReady; and no error reaches the page.
StartupFallback ==
  [][/\ (/\ Len(noteLoads') < Len(noteLoads)
         /\ Head(noteLoads).origin = "init"
         /\ (~dmSync \/ noteStore = 0 \/ lastOp' = "loadRejected"))
          => /\ staticFetch = "none" /\ staticFetch' = "pending"
             /\ cachedData' = cachedData
     /\ (staticFetch = "pending" /\ staticFetch' = "done")
          => lastOp' = "onDataReady" /\ cachedData' = StaticData
     /\ uncaught' = {}]_vars

\* the live store held no notes at startup and the static dataset was handed over
StartupFallbackWitness ==
  /\ dmSync /\ noteStore = 0
  /\ lastOp = "onDataReady"
  /\ staticFetch = "done"
  /\ cachedData = StaticData
  /\ noteLoads = <<>>
  /\ uncaught = {}

\* no callback that could still change the time container is pending
TimeSettled == todoFetches = <<>> /\ timers = <<>>

\* C9: with the time view active, once a dm-todos-updated refresh has fetched a
\* todo list and nothing is pending any more, the time view's content shows that
\* list, whatever it showed before; with another view active, the event clears
\* the time view's rendered flag and the todo cache.
TodosRefresh ==
  [][/\ (currentView' = "time" /\ timeRendered' /\ TimeSettled' /\ allTodos' # {})
          => /\ timeDom'.areas # <<>>
             /\ timeDom'.areas[1].shows = allTodos'
     /\ (lastOp' = "dm-todos-updated" /\ currentView # "time")
          => ~timeRendered' /\ allTodos' = {}]_vars

\* the refresh that is lost: the time view shows 'No tasks yet', the event's
\* fetch brought a list, and nothing is left to show it
TodosRefreshLost ==
  /\ lastOp = "todosRefreshed"
  /\ currentView = "time" /\ timeRendered /\ TimeSettled
  /\ allTodos # {}
  /\ timeDom.msg = "No tasks yet" /\ timeDom.areas = <<>>

\* C8: no renderer activation and no hover, click, zoom or resize changes the
\* dataset in cachedData; only onDataReady replaces it, and what it holds then is
\* the dataset handed over, as the normalizer or the static file gave it.
DatasetUntouched ==
  [][/\ lastOp' # "onDataReady" => cachedData' = cachedData
     /\ lastOp' = "onDataReady" =>
          cachedData' \in {StaticData, buildGraphFromNotes(StoreNotes(noteStore))}]_vars

\* every view was rendered from the live dataset, the graph was zoomed and
\* resized, and a node of it is under the pointer
DatasetUntouchedWitness ==
  /\ lastOp = "onHover"
  /\ cachedData = buildGraphFromNotes(StoreNotes(1))
  /\ graphRendered /\ gridRendered /\ radialRendered /\ timeRendered
  /\ graphOut.zoomed /\ graphOut.resized /\ radialOut.resized
  /\ hover.view = "graph" /\ hover.adjacent = {IdA, IdB}

\* the startup load and the static fetch both failed and no dataset is held
LoadFailed == staticFetch = "failed" /\ cachedData = NoData

\* C11 as stated: once the dataset load has failed, the failure is logged,
\* nothing reaches the page, cachedData stays null, and no renderer of any view
\* is invoked, whatever view switches or theme changes follow.
NoRenderAfterLoadFailure ==
  [][LoadFailed' =>
       /\ "Graph data load error" \in logged'
       /\ uncaught' = {}
       /\ invoked' = {}]_vars

\* C11 as the code has it: once the dataset load has failed, the failure is
\* logged, nothing reaches the page, cachedData stays null, no renderer of
\* graph, grid or radial is invoked and their containers stay empty; the time
\* view, which reads the todos and not the dataset, still renders.
NoDatasetRenderAfterLoadFailure ==
  [][LoadFailed' =>
       /\ "Graph data load error" \in logged'
       /\ uncaught' = {}
       /\ invoked' \subseteq {"time"}
       /\ ~graphRendered' /\ ~gridRendered' /\ ~radialRendered'
       /\ graphOut' = NoOutput /\ gridOut' = NoOutput /\ radialOut' = NoOutput]_vars

\* after the failed load the user switched to the grid and changed the theme:
\* nothing was rendered
LoadFailureWitness ==
  /\ LoadFailed
  /\ lastOp = "themeSettle"
  /\ theme = "dark"
  /\ currentView = "grid" /\ activeContainers = {"grid"}
  /\ invoked = {}
  /\ gridOut = NoOutput
  /\ logged = {"Graph data load error"}


\* C12: what localStorage holds mirrors the state in memory: the view under
\* 'dm-view-mode', the filter mode under 'dm-time-filter', the custom bounds
\* under 'dm-time-custom-from' and 'dm-time-custom-to'; where nothing is stored
\* the state in memory is the default 'graph', 'all', ''. It holds after every
\* view switch, filter click, custom date application and page reload
PersistedMirrorsMemory ==
  /\ currentView = StoredOr(storedView, "graph")
  /\ timeFilterState.mode = StoredOr(filterStore.mode, "all")
  /\ timeFilterState.customFrom = StoredOr(filterStore.customFrom, "")
  /\ timeFilterState.customTo = StoredOr(filterStore.customTo, "")

\* a reload after a custom range was applied: the script starts in the time
\* view with the custom mode and the bounds that were stored
PersistedMirrorsMemoryWitness ==
  /\ lastOp = "init"
  /\ storedView = {"time"} /\ currentView = "time"
  /\ filterStore = [mode |-> {"custom"}, customFrom |-> {"2024-03-01"},
                    customTo |-> {"2024-03-31"}]
  /\ timeFilterState = [mode |-> "custom", customFrom |-> "2024-03-01",
                        customTo |-> "2024-03-31"]



\* the drawn nodes whose path is the path of the document, a trailing slash
\* on either side aside
MatchingNodes(out) ==
  {k \in 1..Len(out.nodes) : StripSlash(out.nodes[k].path) = StripSlash(LocationPathname)}

\* C19: in every graph render, when exactly one node's path is the path of the
\* document that node and no other is marked current, when no node's path is
\* no node is marked, and never more than one node is marked; for the static
\* dataset and for live records, first renders and renders after a refresh.
CurrentNodeMarking ==
  [][("graph" \in invoked' /\ graphOut' # NoOutput) =>
       /\ Cardinality(MatchingNodes(graphOut')) = 1 => graphOut'.current = MatchingNodes(graphOut')
       /\ MatchingNodes(graphOut') = {} => graphOut'.current = {}
       /\ Cardinality(graphOut'.current) <= 1]_vars

\* the graph drawn over the static dataset as it arrives: the node of the
\* document is marked, the other is not
CurrentNodeMarkingWitness ==
  /\ "graph" \in invoked
  /\ lastOp = "onDataReady"
  /\ graphOut.nodes = Simulate(StaticData.nodes)
  /\ MatchingNodes(graphOut) = {1}
  /\ graphOut.current = {1}


\* content timers that will render into the area on screen
WaitingRerenders == {k \in 1..Len(timers) : timers[k].kind = "time" /\ timers[k].live}

\* C20: filter changes less than 250 ms apart re-render the content area once,
\* 250 ms after the last of them: when a timer re-renders the area, no later
\* change is still waiting for a re-render of its own.
DebouncedRerender ==
  [][(lastOp' = "timeContentFire" /\ timers[1].live /\ allTodos # {})
       => WaitingRerenders' = {}]_vars

\* the area was re-rendered for the first of two filter changes and the timer
\* of the second is still to fire
RerenderPerChange ==
  /\ lastOp = "timeContentFire"
  /\ timeDom.areas # <<>> /\ ~timeDom.areas[1].fading
  /\ WaitingRerenders # {}



\* C25: after a hover on a node of the graph followed by the hover end, every
\* circle's radius and opacity, every label's opacity and font size and every
\* line's stroke colour and stroke width are what they were before the hover,
\* for tag edges and for backlink edges.
HoverRoundTrip ==
  [][lastOp' = "onHoverEnd" /\ hover.view = "graph" /\ graphOut' # NoOutput
       => graphOut'.style = hover.before]_vars

\* the backlink edge of the generated data, drawn 2 wide, is 1.5 wide after a
\* hover and its end
BacklinkThinned ==
  /\ graphOut # NoOutput /\ hover = NoHover /\ lastOp = "onHoverEnd"
  /\ \E e \in DOMAIN graphOut.links :
       /\ graphOut.links[e].type = "backlink"
       /\ graphOut.style.lines[e].width = 15
       /\ RestStyle(graphOut.nodes, graphOut.links, graphOut.theme).lines[e].width = 20

\* the content area k shows the message of renderTimeContent
ShowsNoData(k) == timeDom.areas[k].shows # {} /\ ~timeDom.areas[k].charts

\* C28: 'sync not available', 'no todos' and 'no completed todos in range'
\* each show a message of their own, in each of them the time container holds
\* no chart, and in the last the time legend lists nothing.
EmptyStatesChartless ==
  /\ timeDom.msg \in {"Sync not available", "No tasks yet"} =>
       \A k \in DOMAIN timeDom.areas : ~timeDom.areas[k].charts
  /\ (\E k \in DOMAIN timeDom.areas : ShowsNoData(k)) =>
       /\ \A k \in DOMAIN timeDom.areas : ~timeDom.areas[k].charts
       /\ ~timeDom.legendItems
  /\ "Sync not available" # "No tasks yet"
  /\ \A mode \in FilterKeys :
       /\ emptyMsg(mode) \notin {"Time tracking data requires sign-in and sync.",
                                 "Create tasks in the Inbox to see time tracking analytics here."}
       /\ "No data" \notin {"Sync not available", "No tasks yet"}

\* the first content area shows 'No data' for the filter in force, the second
\* still holds the charts of an earlier filter
ChartBesideNoData ==
  /\ Len(timeDom.areas) = 2 /\ timers = <<>> /\ todoFetches = <<>>
  /\ ShowsNoData(1) /\ timeDom.areas[2].charts
  /\ ~DrawsCharts(allTodos, timeFilterState)

\* C29: the re-render scheduled by triggerTimeContentUpdate never runs
\* renderTimeContent with a null todo list: whenever the callback of the
\* 250 ms timer runs, the todo cache _allTodos holds a list.
TimerReadsTodos ==
  [][(lastOp' = "timeContentFire" /\ timers' # timers) => allTodos # {}]_vars

\* the callback ran on a cache that onDataReady had cleared: todos.filter threw
TimerReadNull ==
  /\ lastOp = "timeContentFire"
  /\ "renderTimeContent" \in uncaught
  /\ allTodos = {}

\* C30: in every state the time container holds at most one filter bar and at
\* most one content area, also when renderTimeView was invoked again while
\* the getAllTodos promise of an earlier invocation was pending.
OneBarOneArea == timeDom.bars <= 1 /\ Len(timeDom.areas) <= 1

\* two invocations of renderTimeView have each appended a bar and an area
TwoBarsTwoAreas ==
  /\ currentView = "time" /\ todoFetches = <<>>
  /\ timeDom.bars = 2 /\ Len(timeDom.areas) = 2

\* C31: the static fallback fetch, started before a live reload, never
\* replaces the dataset that reload delivered when it completes after it
LatestLoadWins ==
  [][(cachedFrom = "later" /\ staticFetch = "pending" /\ staticFetch' = "done")
       => cachedData' = cachedData]_vars

\* the startup read was rejected and its fallback fetch is still in flight
\* while a reload started by a later dm-sync-complete has delivered its notes
ReloadBeforeFallback ==
  /\ staticFetch = "pending" /\ cachedFrom = "later"
  /\ cachedData = buildGraphFromNotes(StoreNotes(noteStore))
  /\ cachedData # StaticData

\* the content area that the filter handlers re-render is drawn, the todos
\* are loaded and no re-render timer is pending
ContentSettled ==
  /\ FilterBarShown /\ timeDom.areas # <<>> /\ allTodos # {}
  /\ timers = <<>>

IdPairs == {pair \in NoteIds \X NoteIds : pair[1] # pair[2]}

InitKeys ==
  /\ notes = <<>>
  /\ built = NoData
  /\ callArgs \in [first : IdPairs, second : IdPairs]
  /\ callResult = NoData
  /\ CoordinatorIdle

\* var key = nodes[i].id < nodes[j].id ? ... : ...
RunKeys ==
  /\ callResult = NoData
  /\ callResult' = [first |-> EdgeKey(callArgs.first[1], callArgs.first[2]),
                    second |-> EdgeKey(callArgs.second[1], callArgs.second[2]),
                    swapped |-> EdgeKey(callArgs.first[2], callArgs.first[1])]
  /\ UNCHANGED <<sideVars, notes, built, callArgs, envVars, viewVars, asyncVars, spyVars, filterVars>>

NextKeys == RunKeys

SpecKeys == InitKeys /\ [][NextKeys]_vars

\* C40: two pairs of nodes receive the same key only if they are the same
\* unordered pair, and the key of a pair is the same whichever node comes first
DedupKeyInjective ==
  callResult # NoData =>
    /\ callResult.first = callResult.second =>
         {callArgs.first[1], callArgs.first[2]} = {callArgs.second[1], callArgs.second[2]}
    /\ callResult.swapped = callResult.first

\* the pairs ('a', 'b|c') and ('c', 'a|b') both receive the key 'a|b|c'
SameKeyTwoPairs ==
  /\ callResult # NoData
  /\ callArgs.first = <<IdA, IdBBarC>> /\ callArgs.second = <<IdC, IdABarB>>
  /\ callResult.first = callResult.second
  /\ callResult.first = IdA \o <<Bar>> \o IdB \o <<Bar>> \o IdC

(***************************************************************************)
(* Hover runs: a drawn graph of three nodes and up to MaxHoverLinks links,  *)
(* then the pointer enters one node                                        *)
(***************************************************************************)
MaxHoverLinks == 2

HoverIds == <<IdA, IdB, IdAB>>

HoverLinks ==
  UNION {[1..n -> [source : {IdA, IdB, IdAB}, target : {IdA, IdB, IdAB}]] :
           n \in 0..MaxHoverLinks}

InitHover ==
  /\ notes = <<>>
  /\ built = NoData
  /\ callArgs \in [out : [nodes : {[j \in 1..3 |-> [id |-> HoverIds[j]]]},
                           links : HoverLinks,
                           theme : Themes],
                    k : 1..3]
  /\ callResult = NoData
  /\ CoordinatorIdle

\* nodes.on('mouseover', ...) and labels.on('mouseover', ...): onHover(d, ...)
RunHover ==
  /\ callResult = NoData
  /\ callResult' = onHoverStyle(callArgs.out, callArgs.k)
  /\ UNCHANGED <<sideVars, notes, built, callArgs, envVars, viewVars, asyncVars, spyVars, filterVars>>

NextHover == RunHover

SpecHover == InitHover /\ [][NextHover]_vars

\* node j is the hovered node or an end of a link whose other end is hovered
JoinedToHovered(j) ==
  LET out == callArgs.out
      v == out.nodes[callArgs.k].id
      w == out.nodes[j].id
  IN \/ w = v
     \/ \E e \in DOMAIN out.links :
          \/ out.links[e].source = v /\ out.links[e].target = w
          \/ out.links[e].target = v /\ out.links[e].source = w

\* link e has the hovered node at one of its ends
IncidentToHovered(e) ==
  LET v == callArgs.out.nodes[callArgs.k].id IN
  callArgs.out.links[e].source = v \/ callArgs.out.links[e].target = v

\* C33: on hover of v the circles and labels at full opacity are exactly v and
\* the nodes joined to v by a link in either direction, the others are dimmed;
\* exactly the links incident to v get the hover colour, the others the dimmed
\* colour; only v is enlarged
HoverAdjacency ==
  callResult # NoData =>
    /\ \A j \in DOMAIN callArgs.out.nodes :
         /\ callResult.circles[j].opacity = IF JoinedToHovered(j) THEN 100 ELSE 15
         /\ callResult.texts[j].opacity = IF JoinedToHovered(j) THEN 100 ELSE 10
         /\ callResult.circles[j].r > 10 <=> j = callArgs.k
         /\ callResult.texts[j].size = "0.9rem" <=> j = callArgs.k
    /\ \A e \in DOMAIN callArgs.out.links :
         callResult.lines[e].stroke[2] =
           IF IncidentToHovered(e) THEN "EDGE_HOVER_COLOR" ELSE "EDGE_DIM_COLOR"

\* the hovered node has one link coming in and the third node is linked only
\* to that neighbour: the neighbour stays lit, the third node and its link dim
HoverIncomingLink ==
  /\ callResult # NoData
  /\ callArgs.k = 1
  /\ callArgs.out.links = <<[source |-> IdB, target |-> IdA],
                            [source |-> IdAB, target |-> IdB]>>
  /\ callResult.circles[2].opacity = 100 /\ callResult.circles[3].opacity = 15
  /\ callResult.lines[2].stroke[2] = "EDGE_DIM_COLOR"

(***************************************************************************)
(* Glow runs: up to MaxGlowNodes nodes of any category, one of them         *)
(* possibly the page's own note, then the graph initGraph draws of them     *)
(***************************************************************************)
MaxGlowNodes == 2

\* the category enum of the dataset; "" stands for a category that is missing
\* or empty, which d.category || 'default' and the table look-up treat alike
Categories == {"books", "topics", "inbox", "snippets", "default", ""}

GlowNode(id, path, category) ==
  [id |-> id, path |-> path, label |-> "Note", number_neighbours |-> 0,
   category |-> category, tags |-> <<>>]

GlowNodeLists ==
  UNION {{[k \in 1..n |-> GlowNode(HoverIds[k], paths[k], cats[k])] :
            paths \in [1..n -> {<<Slash>> \o IdA, <<Slash>> \o IdB}],
            cats \in [1..n -> Categories]} :
         n \in 1..MaxGlowNodes}

InitGlow ==
  /\ notes = <<>>
  /\ built = NoData
  /\ callArgs \in [nodesData : GlowNodeLists, theme : Themes]
  /\ callResult = NoData
  /\ CoordinatorIdle

\* initGraph(data.nodes, links) on a page that has not drawn a graph before
RunGlow ==
  /\ callResult = NoData
  /\ callResult' = initGraph(callArgs.nodesData, <<>>, callArgs.theme, {})
  /\ UNCHANGED <<sideVars, notes, built, callArgs, envVars, viewVars, asyncVars, spyVars, filterVars>>

NextGlow == RunGlow

SpecGlow == InitGlow /\ [][NextGlow]_vars

\* C36: for every drawn node whose category is a value of the enum or
\* missing, the glow filter the circle references is one of the filters the
\* render defines, and the colour table of the theme gives its fill
GlowFilterDefined ==
  callResult # NoData =>
    \A k \in DOMAIN callArgs.nodesData :
      /\ callResult.filter[k] \in callResult.defs
      /\ callResult.fill[k][1] = callArgs.theme
      /\ callResult.fill[k][2] \in CategoryColorKeys \cup {"ACTIVE_COLOR"}

\* a snippets node that is not the page's own note references 'glow-snippets',
\* which the render does not define; its fill is the default colour
GlowSnippetsUndefined ==
  /\ callResult # NoData
  /\ callArgs.nodesData[1].category = "snippets"
  /\ callResult.current = {}
  /\ callResult.filter[1] = <<"glow", "snippets">>
  /\ callResult.filter[1] \notin callResult.defs
  /\ callResult.fill[1] = <<callArgs.theme, "default">>

(***************************************************************************)
(* Donut runs: a bounded list of completed todos, one call of               *)
(* renderTimeContent, then the pointer enters a slice of the donut          *)
(***************************************************************************)
\* completed todos that differ in category and in the minutes tracked, none
\* tracked included
DonutTodos ==
  {[PlainTodo EXCEPT !.category = c, !.actualMin = a] :
     c \in {{}, {"A"}, {"B"}}, a \in {{0}, {5}, {45}}}

\* d3.sum(categoryData, c => c.actual)
RECURSIVE d3sumActual(_)
d3sumActual(categoryData) ==
  IF categoryData = <<>> THEN 0
  ELSE Head(categoryData).actual + d3sumActual(Tail(categoryData))

\* Math.round(d.data.actual / d3.sum(...) * 100) for a slice d of the data:
\* {} for NaN, which is what 0 / 0 gives when the sum is 0
donutPercent(d, categoryData) ==
  IF d3sumActual(categoryData) = 0 THEN {}
  ELSE {RoundHalfUp(d.actual * 100, d3sumActual(categoryData))}

InitDonut ==
  /\ notes = <<>>
  /\ built = NoData
  /\ callArgs \in [todos : TodoLists(DonutTodos), fs : {NoFilter},
                    now : {<<2024, 3, 31>>}, over : {0}, pct : {{}}]
  /\ callResult = NoData
  /\ CoordinatorIdle

\* renderTimeContent(contentArea, _allTodos, theme, animate)
RunDonut ==
  /\ callResult = NoData
  /\ callResult' = renderTimeContent(callArgs.todos, callArgs.fs, callArgs.now)
  /\ UNCHANGED <<sideVars, notes, built, callArgs, envVars, viewVars, asyncVars, spyVars, filterVars>>

\* mouseover on slice k of the donut: the tooltip shows the percentage
SliceHover(k) ==
  /\ callResult # NoData /\ ~callResult.nodata
  /\ k \in 1..Len(callResult.categoryData)
  /\ callArgs.over = 0
  /\ callArgs' = [callArgs EXCEPT
                    !.over = k,
                    !.pct = donutPercent(callResult.categoryData[k],
                                         callResult.categoryData)]
  /\ UNCHANGED <<sideVars, notes, built, callResult, envVars, viewVars, asyncVars, spyVars, filterVars>>

NextDonut ==
  \/ RunDonut
  \/ \E k \in 1..MaxTodos : SliceHover(k)

SpecDonut == InitDonut /\ [][NextDonut]_vars

\* C37: whenever the donut is drawn, the total of the actual minutes over the
\* categories is greater than zero, and the percentage a hovered slice shows
\* is an integer between 0 and 100
DonutTotalPositive ==
  (callResult # NoData /\ ~callResult.nodata) =>
    /\ d3sumActual(callResult.categoryData) > 0
    /\ callArgs.over > 0 => \E n \in 0..100 : callArgs.pct = {n}

\* the only completed todo has no minutes tracked: the donut is drawn with a
\* total of 0 and the tooltip of its slice shows NaN%
DonutOfZeroMinutes ==
  /\ callResult # NoData /\ ~callResult.nodata
  /\ Len(callArgs.todos) = 1 /\ callArgs.todos[1].actualMin = {0}
  /\ d3sumActual(callResult.categoryData) = 0
  /\ callArgs.over = 1 /\ callArgs.pct = {}

(***************************************************************************)
(* Entrance runs: a graph of n nodes is drawn, then its entrance            *)
(* transitions run, observed every 20 ms                                   *)
(***************************************************************************)
MaxEntrance == 4

\* nodes.transition().delay(i * 80).duration(600), i the index of the node
nodeDelay(i) == i * 80
nodeEnd(i) == nodeDelay(i) + 600

\* labels.transition().delay(i * 80 + 300).duration(400)
labelDelay(i) == i * 80 + 300
labelEnd(i) == labelDelay(i) + 400

\* links whose delay leaves out the stagger of the nodes
linkDelayFixed(nodeCount) == 200

\* links.transition().delay(nodeCount * 80 + 200).duration(500)
linkDelay(nodeCount) == nodeCount * 80 + 200
linkEnd(nodeCount) == linkDelay(nodeCount) + 500

\* a transition of the given delay and end, at time now
Phase(delay, end, now) ==
  IF now < delay THEN "waiting" ELSE IF now < end THEN "running" ELSE "done"

\* the transitions of the circles, labels and lines at time now
Entrance(nodeCount, now) ==
  [clock |-> now,
   circles |-> [k \in 1..nodeCount |-> Phase(nodeDelay(k - 1), nodeEnd(k - 1), now)],
   texts |-> [k \in 1..nodeCount |-> Phase(labelDelay(k - 1), labelEnd(k - 1), now)],
   lines |-> Phase(linkDelay(nodeCount), linkEnd(nodeCount), now)]

InitEntrance ==
  /\ notes = <<>>
  /\ built = NoData
  /\ callArgs \in {<<nodeCount>> : nodeCount \in 0..MaxEntrance}
  /\ callResult = NoData
  /\ CoordinatorIdle

\* initGraph has drawn the elements hidden and set their transitions
StartEntrance ==
  /\ callResult = NoData
  /\ callResult' = Entrance(callArgs[1], 0)
  /\ UNCHANGED <<sideVars, notes, built, callArgs, envVars, viewVars, asyncVars, spyVars, filterVars>>

\* 20 ms pass while a transition is waiting or running
EntranceTick ==
  /\ callResult # NoData
  /\ \/ callResult.lines # "done"
     \/ \E k \in DOMAIN callResult.texts : callResult.texts[k] # "done"
  /\ callResult' = Entrance(callArgs[1], callResult.clock + 20)
  /\ UNCHANGED <<sideVars, notes, built, callArgs, envVars, viewVars, asyncVars, spyVars, filterVars>>

NextEntrance == StartEntrance \/ EntranceTick

SpecEntrance == InitEntrance /\ [][NextEntrance]_vars

Started(phase) == phase # "waiting"

\* C26 as stated: each label's fade-in starts after its node's entrance has
\* started, and the edges' fade-in starts only after the entrance of every
\* node and the fade-in of every label have started.
EntranceOrder ==
  (callResult # NoData /\ callArgs[1] >= 1) =>
    /\ \A k \in DOMAIN callResult.texts :
         Started(callResult.texts[k]) => Started(callResult.circles[k])
    /\ Started(callResult.lines) =>
         /\ \A k \in DOMAIN callResult.circles : Started(callResult.circles[k])
         /\ \A k \in DOMAIN callResult.texts : Started(callResult.texts[k])

\* C26: each label's fade-in starts after its node's entrance has started,
\* and the edges' fade-in starts only after the entrance of every node and
\* the fade-in of every label but the last have started; the last label's
\* fade-in starts 20 ms after the edges'.
EntranceOrderButLastLabel ==
  (callResult # NoData /\ callArgs[1] >= 1) =>
    LET nodeCount == callArgs[1] IN
    /\ \A k \in DOMAIN callResult.texts :
         Started(callResult.texts[k]) => Started(callResult.circles[k])
    /\ Started(callResult.lines) =>
         /\ \A k \in DOMAIN callResult.circles : Started(callResult.circles[k])
         /\ \A k \in DOMAIN callResult.texts :
              k < nodeCount => Started(callResult.texts[k])
    /\ Started(callResult.texts[nodeCount]) <=>
         callResult.clock >= linkDelay(nodeCount) + 20

\* the edges of a graph of four nodes fade in while the last label still waits
EdgesBeforeLastLabel ==
  /\ callResult # NoData /\ callArgs[1] = 4
  /\ callResult.lines = "running"
  /\ callResult.texts[4] = "waiting" /\ callResult.texts[3] = "running"
  /\ callResult.circles[4] = "running"

(***************************************************************************)
(* Fade runs: the entrance of the lines with the pointer moving over the    *)
(* nodes and labels. A d3 transition that starts on an element cancels the  *)
(* transitions of the same name scheduled earlier on it that still wait,    *)
(* and interrupts the one that runs; all transitions here are unnamed.      *)
(***************************************************************************)
\* the lines as initGraph leaves them: opacity 0, their fade-in scheduled;
\* opacity in hundredths, 50 standing for any value on the way from 0 to 1
FadeStart(nodeCount) ==
  [clock |-> 0, nodeCount |-> nodeCount, entrance |-> "waiting", opacity |-> 0,
   hovered |-> 0]

\* the fade-in of the lines at time now, unless it was cancelled or interrupted
FadeAt(fade, now) ==
  IF fade.entrance \notin {"waiting", "running"} THEN [fade EXCEPT !.clock = now]
  ELSE LET phase == Phase(linkDelay(fade.nodeCount), linkEnd(fade.nodeCount), now) IN
       [fade EXCEPT !.clock = now,
                    !.entrance = phase,
                    !.opacity = IF phase = "waiting" THEN 0
                                ELSE IF phase = "running" THEN 50 ELSE 100]

\* links.transition().duration(...).attr('stroke', ...).attr('stroke-width', ...)
\* of onHover and onHoverEnd starts: the fade-in that waits is cancelled, the
\* one that runs is interrupted, and the new transition leaves opacity alone
linksTransition(fade) ==
  [fade EXCEPT !.entrance = IF @ = "waiting" THEN "cancelled"
                            ELSE IF @ = "running" THEN "interrupted" ELSE @]

InitFade ==
  /\ notes = <<>>
  /\ built = NoData
  /\ callArgs \in {<<nodeCount>> : nodeCount \in 1..MaxEntrance}
  /\ callResult = NoData
  /\ CoordinatorIdle

\* initGraph has drawn the elements hidden and set their transitions
StartFade ==
  /\ callResult = NoData
  /\ callResult' = FadeStart(callArgs[1])
  /\ UNCHANGED <<sideVars, notes, built, callArgs, envVars, viewVars, asyncVars, spyVars, filterVars>>

\* 20 ms pass, until the time the fade-in is to have ended
FadeTick ==
  /\ callResult # NoData
  /\ callResult.clock < linkEnd(callResult.nodeCount)
  /\ callResult' = FadeAt(callResult, callResult.clock + 20)
  /\ UNCHANGED <<sideVars, notes, built, callArgs, envVars, viewVars, asyncVars, spyVars, filterVars>>

\* mouseover on the label or the circle of node k; a label takes the pointer
\* from the start, whatever its opacity
FadeHover(k) ==
  /\ callResult # NoData
  /\ k \in 1..callResult.nodeCount
  /\ callResult.hovered # k
  /\ callResult' = [linksTransition(callResult) EXCEPT !.hovered = k]
  /\ UNCHANGED <<sideVars, notes, built, callArgs, envVars, viewVars, asyncVars, spyVars, filterVars>>

\* mouseout
FadeHoverEnd ==
  /\ callResult # NoData
  /\ callResult.hovered # 0
  /\ callResult' = [linksTransition(callResult) EXCEPT !.hovered = 0]
  /\ UNCHANGED <<sideVars, notes, built, callArgs, envVars, viewVars, asyncVars, spyVars, filterVars>>

NextFade ==
  \/ StartFade
  \/ FadeTick
  \/ \E k \in 1..MaxEntrance : FadeHover(k)
  \/ FadeHoverEnd

SpecFade == InitFade /\ [][NextFade]_vars

\* C38: whatever hovers and hover ends interleave with the entrance, the lines
\* are at full opacity once the time of their fade-in has passed
EdgesReachFullOpacity ==
  (callResult # NoData /\ callResult.clock >= linkEnd(callResult.nodeCount))
    => callResult.opacity = 100

\* a label was hovered and left before the fade-in of the lines had begun:
\* the fade-in was cancelled and the lines are still at opacity 0 after its time
EdgesLeftHidden ==
  /\ callResult # NoData
  /\ callResult.clock >= linkEnd(callResult.nodeCount)
  /\ callResult.entrance = "cancelled" /\ callResult.opacity = 0
  /\ callResult.hovered = 0

(***************************************************************************)
(* Auto-fit runs: a layout in a container, then the transform initGraph     *)
(* gives the svg                                                           *)
(***************************************************************************)
MaxFitNodes == 2

\* clientWidth and clientHeight of the graph wrapper
ContainerSizes == {100, 160, 400, 800}

\* the positions the simulation can leave a node at
Positions == [x : {0, 300, 3000}, y : {0, 300}]

Layouts == UNION {[1..n -> Positions] : n \in 0..MaxFitNodes}

\* numbers as fractions with a positive denominator
Frac(num, den) == [num |-> num, den |-> den]
FracLeq(a, b) == a.num * b.den <= b.num * a.den
FracMin(a, b) == IF FracLeq(a, b) THEN a ELSE b

\* d3.extent: the least and the greatest value, undefined for no value
Least(values) == {v \in values : \A w \in values : v <= w}
Greatest(values) == {v \in values : \A w \in values : v >= w}

\* (extent[1] - extent[0]) || 1: 1 for a difference of 0 or NaN
SpanOr1(values) ==
  IF values = {} THEN 1
  ELSE LET span == (CHOOSE v \in Greatest(values) : TRUE)
                     - (CHOOSE v \in Least(values) : TRUE)
       IN IF span = 0 THEN 1 ELSE span

\* extent[0] + extent[1], twice the centre; NaN ({}) for no value
CentreTwice(values) ==
  IF values = {} THEN {}
  ELSE {(CHOOSE v \in Least(values) : TRUE) + (CHOOSE v \in Greatest(values) : TRUE)}

\* Math.min((width - padding * 2) / graphWidth,
\*          (height - padding * 2) / graphHeight, 1.5), padding = 80
fitScale(width, height, nodesData) ==
  LET xs == {nodesData[k].x : k \in DOMAIN nodesData}
      ys == {nodesData[k].y : k \in DOMAIN nodesData}
  IN FracMin(FracMin(Frac(width - 80 * 2, SpanOr1(xs)),
                     Frac(height - 80 * 2, SpanOr1(ys))),
             Frac(3, 2))

\* translate(size / 2).scale(k).translate(-centre): size / 2 - k * centre,
\* NaN for a centre that is NaN
Offset(size, k, centreTwice) ==
  {Frac(size * k.den - k.num * c, 2 * k.den) : c \in centreTwice}

\* the transform handed to zoom.transform, which sets it as it is: the scale
\* extent is enforced on gestures only
autoFit(width, height, nodesData) ==
  LET xs == {nodesData[k].x : k \in DOMAIN nodesData}
      ys == {nodesData[k].y : k \in DOMAIN nodesData}
      k == fitScale(width, height, nodesData)
  IN [k |-> k,
      x |-> Offset(width, k, CentreTwice(xs)),
      y |-> Offset(height, k, CentreTwice(ys))]

InitFit ==
  /\ notes = <<>>
  /\ built = NoData
  /\ callArgs \in {<<width, height, nodesData>> :
                     width \in ContainerSizes, height \in ContainerSizes,
                     nodesData \in Layouts}
  /\ callResult = NoData
  /\ CoordinatorIdle

\* initGraph reaches its auto-fit
RunFit ==
  /\ callResult = NoData
  /\ callResult' = autoFit(callArgs[1], callArgs[2], callArgs[3])
  /\ UNCHANGED <<sideVars, notes, built, callArgs, envVars, viewVars, asyncVars, spyVars, filterVars>>

NextFit == RunFit

SpecFit == InitFit /\ [][NextFit]_vars

\* the point the transform t maps the centre of the bounding box to is the
\* centre of the viewport: k * centre + offset = size / 2, both sides
\* multiplied by the denominator of the offset
CentreMapped(t, size, centreTwice, offset) ==
  /\ offset # {}
  /\ \A c \in centreTwice : \A o \in offset :
       /\ o.den = 2 * t.k.den
       /\ t.k.num * c + o.num = size * t.k.den

\* C27: for every container size and every layout, the empty one included,
\* the scale of the auto-fit transform is within the zoom range [0.3, 4] and
\* at most 1.5, and the transform maps the centre of the bounding box of the
\* nodes to the centre of the viewport.
FitScaleInRange ==
  callResult # NoData =>
    LET t == callResult
        nodesData == callArgs[3]
        xs == {nodesData[k].x : k \in DOMAIN nodesData}
        ys == {nodesData[k].y : k \in DOMAIN nodesData}
    IN /\ FracLeq(Frac(3, 10), t.k) /\ FracLeq(t.k, Frac(4, 1))
       /\ FracLeq(t.k, Frac(3, 2))
       /\ nodesData # <<>> =>
            /\ CentreMapped(t, callArgs[1], CentreTwice(xs), t.x)
            /\ CentreMapped(t, callArgs[2], CentreTwice(ys), t.y)

\* a container 100 wide: the scale of the transform is negative
NegativeFitScale ==
  /\ callResult # NoData /\ callArgs[1] = 100 /\ Len(callArgs[3]) = 2
  /\ callResult.k.num < 0

(***************************************************************************)
(* The search modal and the service worker as programs of their own        *)
(***************************************************************************)
InitSearch ==
  /\ notes = <<>> /\ built = NoData /\ NoCall /\ GraphPageIdle
  /\ worker = WorkerStart
  /\ \E hasIndex \in BOOLEAN :
       search = [SearchStart(hasIndex) EXCEPT !.open = TRUE, !.initialized = TRUE,
                                              !.build = "done"]

NextSearch ==
  \/ \E value \in InputValues : SearchInput(value)
  \/ SearchFire
  \/ SearchTick

SpecSearch == InitSearch /\ [][NextSearch]_vars

\* C21: the search is debounced: after a burst of input events less than
\* DEBOUNCE_MS apart, search runs exactly once, DEBOUNCE_MS after the last
\* event of the burst, on the (trimmed) value the input holds at that moment,
\* and no further run is pending.
SearchRan == search'.runs = search.runs + 1

SearchDebounced ==
  /\ [][SearchRan =>
          /\ search.clock = search.lastInput + DEBOUNCE_MS
          /\ search'.runs = 1
          /\ search'.timers = {}
          /\ search'.results = searchResults([search EXCEPT !.value = search'.value])
          /\ search'.value = search.value]_vars
  /\ [](search.lastInput >= 0 /\ search.clock > search.lastInput + DEBOUNCE_MS
          => search.runs = 1)

\* a burst of three input events has ended and its one search has listed hits
SearchDebouncedWitness ==
  /\ search.burst >= 3 /\ search.runs = 1 /\ search.timers = {}
  /\ search.results.kind = "hits" /\ search.value = "a "

\* the page has loaded: no index, the modal closed
InitModal ==
  /\ notes = <<>> /\ built = NoData /\ NoCall /\ GraphPageIdle
  /\ worker = WorkerStart
  /\ \E sync \in BOOLEAN : search = [SearchStart(FALSE) EXCEPT !.dmSync = sync]

NextModal ==
  \/ OpenModal
  \/ CloseModal
  \/ \E outcome \in {"index", "noindex", "rejected"} : InitSettle(outcome)
  \/ SearchSync
  \/ \E value \in InputValues : SearchInput(value)
  \/ SearchFire
  \/ SearchTick
  \/ \E step \in {-1, 1} : ArrowKey(step)

SpecModal == InitModal /\ [][NextModal]_vars

\* the sign-in item is in the list
PromptShown == search.results.kind = "prompt" \/ search.appended > 0

\* C34: activeIndex is -1 or the index of a result link and at most one
\* result is marked active, which is the one activeIndex names; ArrowDown from
\* the last result selects the first, ArrowUp from the first result or from no
\* selection selects the last; every search, open and close resets the
\* selection to -1
SelectionValid ==
  [][/\ search'.activeIndex = -1 \/ search'.activeIndex \in 0..(Links(search') - 1)
     /\ search'.marked = {search'.activeIndex} \ {-1}
     /\ (search'.op = "ArrowDown" /\ Links(search) > 0
          /\ search.activeIndex = Links(search) - 1) => search'.activeIndex = 0
     /\ (search'.op = "ArrowUp" /\ Links(search) > 0
          /\ search.activeIndex \in {-1, 0}) => search'.activeIndex = Links(search) - 1
     /\ search'.op \in {"search", "open", "close"} =>
          search'.activeIndex = -1 /\ search'.marked = {}]_vars

\* ArrowUp with nothing selected has selected the last of two results
ArrowUpWrapped ==
  /\ search.op = "ArrowUp" /\ Links(search) = 2
  /\ search.activeIndex = 1 /\ search.marked = {1}

\* C35: the sign-in prompt is never shown while the first index build is in
\* flight
NoPromptDuringBuild == search.build = "pending" => ~PromptShown

\* the modal was closed and opened again while the first build was in
\* flight, and shows the prompt
PromptDuringBuild ==
  /\ search.build = "pending" /\ search.open /\ search.op = "open"
  /\ search.appended = 1

InitWorker ==
  /\ notes = <<>> /\ built = NoData /\ NoCall /\ GraphPageIdle
  /\ SideIdle

NextNotify ==
  \/ \E tag \in Tags : ScheduleNotification(tag)
  \/ \E tag \in Tags : CancelNotification(tag)
  \/ CancelAllNotifications
  \/ NotificationFire

SpecNotify == InitWorker /\ [][NextNotify]_vars

\* C22: notifications are keyed by tag: in every state at most one
\* notification timer is pending per tag, and a notification whose tag was
\* scheduled again while it was pending is never shown.
OneTimerPerTag ==
  /\ \A tag \in Tags :
       Cardinality({t \in worker.timeouts : t.tag = tag}) <= 1
  /\ worker.shown \cap worker.superseded = {}

\* a notification was shown although its tag was scheduled again before
ReplacedShown == worker.shown \cap worker.superseded # {}

\* C23: after a cancel-notification message for a tag no notification
\* scheduled under that tag before the message is shown, and the pending
\* notifications of the other tags stay; after cancel-all-notifications no
\* notification scheduled before the message is shown and the pending map
\* is empty.
CancelExact ==
  [][/\ worker'.shown \cap worker'.cancelled = {}
     /\ worker'.message.type = "cancel-notification" =>
          \A t \in worker.timeouts :
            t.tag # worker'.message.tag => t \in worker'.timeouts
     /\ worker'.message.type = "cancel-all-notifications" =>
          OwnKeys(worker'.pendingNotifications) = {}]_vars

\* a notification was shown although it was cancelled before
CancelledShown == worker.shown \cap worker.cancelled # {}

\* C39: in every state the pending map holds exactly the tags whose timers
\* were scheduled and have neither fired nor been cancelled or replaced, each
\* with the id of that timer, and those timers are the live ones: a schedule
\* that is not cancelled or replaced stays pending until its timer fires and
\* shows its one notification. A live timer may fire at any time, which
\* stands for every delay of at least 0.
PendingMapExact ==
  LET unsettled == {sch \in worker.scheduled :
                      sch.id \notin worker.shown \cup worker.superseded
                                     \cup worker.cancelled}
  IN /\ worker.timeouts = unsettled
     /\ OwnKeys(worker.pendingNotifications) = {sch.tag : sch \in unsettled}
     /\ \A sch \in unsettled : worker.pendingNotifications[sch.tag] = {sch.id}

\* a timer scheduled under the tag '__proto__' is live and the pending map has
\* no key for it
TimerOutsideMap ==
  /\ \E t \in worker.timeouts : t.tag = ProtoKey
  /\ OwnKeys(worker.pendingNotifications) = {}
  /\ worker.message = [type |-> "schedule-notification", tag |-> ProtoKey]

\* C24: only GET requests are intercepted; a GET whose network fetch succeeds
\* is answered with the network response, which is stored in the cache if
\* and only if it is a basic, ok response without a Content-Disposition
\* header; a GET whose network fetch fails is answered from the cache with
\* the most recently cached response of the URL.
NetworkFirst ==
  LET request == worker.request IN
  /\ request.method = "POST" => worker.answer.by = "browser"
  /\ request.method = "GET" /\ request.outcome # NetworkError =>
       /\ worker.answer = [by |-> "network", response |-> {request.outcome}]
       /\ worker.put <=> /\ request.outcome.type = "basic"
                          /\ Ok(request.outcome)
                          /\ ~request.outcome.disposition
  /\ request.method = "GET" /\ request.outcome = NetworkError =>
       worker.answer = [by |-> "cache",
                        response |-> worker.lastCacheable[request.url]]

\* a partial response of the network was not passed on to the page
PartialResponseLost ==
  /\ worker.request.method = "GET" /\ worker.request.outcome # NetworkError
  /\ worker.request.outcome.status = 206
  /\ worker.answer.by = "cache"

NextFetch ==
  \E method \in Methods, url \in Urls, outcome \in Outcomes :
    Fetch(method, url, outcome)

SpecFetch == InitWorker /\ [][NextFetch]_vars

====
